---- MODULE Spec2Model ----
(***************************************************************************)
(* Document pipeline: ingress -> document_queue -> OCR processor ->        *)
(* ocr_result_queue -> validation processor -> validation_queue ->         *)
(* persistence processor, over Redis hashes, strings and streams.          *)
(* Every awaited Redis call of a handler or of a processor loop is one     *)
(* step; a Redis call may either take effect or throw (the connection is   *)
(* down), the number of throws in one run being bounded by MaxFaults.      *)
(***************************************************************************)
EXTENDS Integers, Sequences, FiniteSets, TLC

\* ------------------------------------------------------------------ bounds
\* Documents the upload endpoint accepts in one run.
NumDocs == 1
\* Redis calls that throw in one run.
MaxFaults == 1
\* Entries appended to an input topic by a producer other than this code.
MaxForeign == 1

\* ------------------------------------------------------------- characters
UpperCase ==
    <<"A","B","C","D","E","F","G","H","I","J","K","L","M",
      "N","O","P","Q","R","S","T","U","V","W","X","Y","Z">>
LowerCase ==
    <<"a","b","c","d","e","f","g","h","i","j","k","l","m",
      "n","o","p","q","r","s","t","u","v","w","x","y","z">>
DigitChars == <<"0","1","2","3","4","5","6","7","8","9">>

IsUpper(c) == \E i \in DOMAIN UpperCase : UpperCase[i] = c
IsLower(c) == \E i \in DOMAIN LowerCase : LowerCase[i] = c
IsLetter(c) == IsUpper(c) \/ IsLower(c)
IsDigit(c) == \E i \in DOMAIN DigitChars : DigitChars[i] = c
\* \s of a JavaScript regular expression, on the characters the texts use.
IsSpace(c) == c \in {" ", "\t", "\n", "\r", "\f"}
\* What "." of a JavaScript regular expression does not match.
IsLineTerminator(c) == c \in {"\n", "\r"}
ToLower(c) ==
    IF IsUpper(c) THEN LowerCase[CHOOSE i \in DOMAIN UpperCase : UpperCase[i] = c] ELSE c
ToUpper(c) ==
    IF IsLower(c) THEN UpperCase[CHOOSE i \in DOMAIN LowerCase : LowerCase[i] = c] ELSE c
DigitValue(c) == (CHOOSE i \in DOMAIN DigitChars : DigitChars[i] = c) - 1

Least(S) == CHOOSE i \in S : \A j \in S : i <= j
Greatest(S) == CHOOSE i \in S : \A j \in S : j <= i

\* The literal lit occurs in s at position i (ci: ignoring case, the /i flag).
MatchAt(s, i, lit, ci) ==
    /\ i >= 1
    /\ i + Len(lit) - 1 <= Len(s)
    /\ \A k \in 1..Len(lit) :
          IF ci THEN ToLower(s[i + k - 1]) = ToLower(lit[k]) ELSE s[i + k - 1] = lit[k]

\* A greedy \s* from position i (1 <= i <= Len(s)+1): the first position it
\* does not consume.
RECURSIVE SkipSpace(_, _)
SkipSpace(s, i) == IF i <= Len(s) /\ IsSpace(s[i]) THEN SkipSpace(s, i + 1) ELSE i
\* A greedy \S+ from position i: the first position after the run.
RECURSIVE SkipNonSpace(_, _)
SkipNonSpace(s, i) == IF i <= Len(s) /\ ~IsSpace(s[i]) THEN SkipNonSpace(s, i + 1) ELSE i
\* A greedy .+ from position i: the first position after the run.
RECURSIVE SkipToLineEnd(_, _)
SkipToLineEnd(s, i) ==
    IF i <= Len(s) /\ ~IsLineTerminator(s[i]) THEN SkipToLineEnd(s, i + 1) ELSE i
\* A greedy \d* from position i: the first position after the run.
RECURSIVE SkipDigits(_, _)
SkipDigits(s, i) == IF i <= Len(s) /\ IsDigit(s[i]) THEN SkipDigits(s, i + 1) ELSE i
\* The digits at positions i..i+n-1.
DigitsAt(s, i, n) == i + n - 1 <= Len(s) /\ \A p \in i..(i + n - 1) : IsDigit(s[p])
LettersAt(s, i, n) == i + n - 1 <= Len(s) /\ \A p \in i..(i + n - 1) : IsLetter(s[p])

\* String.prototype.trim
TrimTo(s, keep) == IF keep = {} THEN <<>> ELSE SubSeq(s, Least(keep), Greatest(keep))
Trim(s) == TrimTo(s, {p \in 1..Len(s) : ~IsSpace(s[p])})
\* String.prototype.toUpperCase
RECURSIVE UpperCaseOf(_)
UpperCaseOf(s) == IF s = <<>> THEN <<>> ELSE <<ToUpper(Head(s))>> \o UpperCaseOf(Tail(s))
\* str.replace(/,/g, '')
RECURSIVE RemoveCommas(_)
RemoveCommas(s) ==
    IF s = <<>> THEN <<>>
    ELSE IF Head(s) = "," THEN RemoveCommas(Tail(s))
    ELSE <<Head(s)>> \o RemoveCommas(Tail(s))

RECURSIVE DigitsToNat(_)
DigitsToNat(ds) ==
    IF ds = <<>> THEN 0
    ELSE 10 * DigitsToNat(SubSeq(ds, 1, Len(ds) - 1)) + DigitValue(ds[Len(ds)])
RECURSIVE StripTrailingZeros(_)
StripTrailingZeros(ds) ==
    IF ds # <<>> /\ ds[Len(ds)] = "0" THEN StripTrailingZeros(SubSeq(ds, 1, Len(ds) - 1))
    ELSE ds
\* parseFloat on a string that starts with a digit: the longest prefix
\* digits[.digits] as the number mant / 10^scale, in lowest terms of 10.
parseFloatOf(intDigits, fracDigits) ==
    [mant |-> DigitsToNat(intDigits \o fracDigits), scale |-> Len(fracDigits)]
parseFloatAt(s, intEnd) ==
    IF intEnd <= Len(s) /\ s[intEnd] = "."
    THEN parseFloatOf(SubSeq(s, 1, intEnd - 1),
                      StripTrailingZeros(SubSeq(s, intEnd + 1, SkipDigits(s, intEnd + 1) - 1)))
    ELSE parseFloatOf(SubSeq(s, 1, intEnd - 1), <<>>)
parseFloat(s) == parseFloatAt(s, SkipDigits(s, 1))

\* ------------------------------------------------ validation-service: rules
LitInvoiceNumber == <<"I","n","v","o","i","c","e"," ","N","u","m","b","e","r",":">>
LitCustomer == <<"C","u","s","t","o","m","e","r",":">>
LitTotal == <<"T","o","t","a","l">>
LitAmount == <<"A","m","o","u","n","t">>
LitCurrency == <<"C","u","r","r","e","n","c","y",":">>
LitDate == <<"D","a","t","e",":">>

\* String.prototype.match without a match: null.
NoMatch == [matched |-> FALSE]

\* ocrText.match(/Invoice Number:\s*(\S+)/i): the positions where the
\* pattern matches, and the match at the first of them.
invoiceNumberStarts(ocrText) ==
    {i \in 1..Len(ocrText) :
        /\ MatchAt(ocrText, i, LitInvoiceNumber, TRUE)
        /\ SkipSpace(ocrText, i + Len(LitInvoiceNumber)) <= Len(ocrText)}
invoiceNumberAt(ocrText, k) ==
    [matched |-> TRUE, group1 |-> SubSeq(ocrText, k, SkipNonSpace(ocrText, k) - 1)]
invoiceNumberFirst(ocrText, starts) ==
    IF starts = {} THEN NoMatch
    ELSE invoiceNumberAt(ocrText, SkipSpace(ocrText, Least(starts) + Len(LitInvoiceNumber)))
invoiceNumberMatch(ocrText) == invoiceNumberFirst(ocrText, invoiceNumberStarts(ocrText))

\* ocrText.match(/Customer:\s*(.+)/i). When only white space follows the
\* label, \s* gives characters back until .+ finds one that is no line
\* terminator, and the group is white space.
customerNameGiven(ocrText, from) ==
    {p \in from..Len(ocrText) : ~IsLineTerminator(ocrText[p])}
customerNameStarts(ocrText) ==
    {i \in 1..Len(ocrText) :
        /\ MatchAt(ocrText, i, LitCustomer, TRUE)
        /\ \/ SkipSpace(ocrText, i + Len(LitCustomer)) <= Len(ocrText)
           \/ customerNameGiven(ocrText, i + Len(LitCustomer)) # {}}
customerNameAt(ocrText, from, after) ==
    IF after <= Len(ocrText)
    THEN [matched |-> TRUE, group1 |-> SubSeq(ocrText, after, SkipToLineEnd(ocrText, after) - 1)]
    ELSE [matched |-> TRUE,
          group1 |-> SubSeq(ocrText, Greatest(customerNameGiven(ocrText, from)),
                            SkipToLineEnd(ocrText, Greatest(customerNameGiven(ocrText, from))) - 1)]
customerNameFrom(ocrText, from) == customerNameAt(ocrText, from, SkipSpace(ocrText, from))
customerNameFirst(ocrText, starts) ==
    IF starts = {} THEN NoMatch
    ELSE customerNameFrom(ocrText, Least(starts) + Len(LitCustomer))
customerNameMatch(ocrText) == customerNameFirst(ocrText, customerNameStarts(ocrText))

\* (?:[.,]\d{3})* from position p, greedy: the first position after it.
RECURSIVE SkipThousands(_, _)
SkipThousands(s, p) ==
    IF p <= Len(s) /\ s[p] \in {".", ","} /\ DigitsAt(s, p + 1, 3)
    THEN SkipThousands(s, p + 4)
    ELSE p
\* (?:[.,]\d{2})? from position t: the first position after it.
SkipCents(s, t) ==
    IF t <= Len(s) /\ s[t] \in {".", ","} /\ DigitsAt(s, t + 1, 2) THEN t + 3 ELSE t
\* \d{1,3}(?:[.,]\d{3})*(?:[.,]\d{2})? from position k, where a digit stands.
AmountEnd(s, k) ==
    SkipCents(s, SkipThousands(s, k + Greatest({n \in 1..3 : DigitsAt(s, k, n)})))

\* ocrText.match(/Total(?:\s+Amount)?:\s*(\d{1,3}(?:[.,]\d{3})*(?:[.,]\d{2})?)\s*([A-Z]{3})?/i)
\* The position of the number when ":" stands at c, \s* follows and a digit
\* follows that; 0 otherwise.
totalNumberAfterColon(ocrText, c) ==
    IF c >= 1 /\ c <= Len(ocrText) /\ ocrText[c] = ":"
       /\ SkipSpace(ocrText, c + 1) <= Len(ocrText)
       /\ IsDigit(ocrText[SkipSpace(ocrText, c + 1)])
    THEN SkipSpace(ocrText, c + 1)
    ELSE 0
\* The position of ":" with "\s+Amount" taken after "Total" (which ends
\* before a); 0 when that does not match.
totalColonWithAmount(ocrText, a) ==
    IF a <= Len(ocrText) /\ IsSpace(ocrText[a])
       /\ MatchAt(ocrText, SkipSpace(ocrText, a), LitAmount, TRUE)
    THEN SkipSpace(ocrText, a) + Len(LitAmount)
    ELSE 0
\* The optional group is tried first, then skipped.
totalNumberEither(ocrText, a, withAmount) ==
    IF withAmount # 0 THEN withAmount ELSE totalNumberAfterColon(ocrText, a)
\* The position of the number for a match that starts at i; 0 when none does.
totalNumber(ocrText, i) ==
    IF ~MatchAt(ocrText, i, LitTotal, TRUE) THEN 0
    ELSE totalNumberEither(ocrText, i + Len(LitTotal),
             totalNumberAfterColon(ocrText, totalColonWithAmount(ocrText, i + Len(LitTotal))))
totalAmountStarts(ocrText) == {i \in 1..Len(ocrText) : totalNumber(ocrText, i) # 0}
\* Group 2 is undefined (has2 = FALSE) when no three letters follow \s*.
totalAmountGroups(ocrText, k, e, q) ==
    [matched |-> TRUE,
     group1 |-> SubSeq(ocrText, k, e - 1),
     has2 |-> LettersAt(ocrText, q, 3),
     group2 |-> IF LettersAt(ocrText, q, 3) THEN SubSeq(ocrText, q, q + 2) ELSE <<>>]
totalAmountTo(ocrText, k, e) == totalAmountGroups(ocrText, k, e, SkipSpace(ocrText, e))
totalAmountAt(ocrText, k) == totalAmountTo(ocrText, k, AmountEnd(ocrText, k))
totalAmountFirst(ocrText, starts) ==
    IF starts = {} THEN NoMatch ELSE totalAmountAt(ocrText, totalNumber(ocrText, Least(starts)))
totalAmountMatch(ocrText) == totalAmountFirst(ocrText, totalAmountStarts(ocrText))

\* ocrText.match(/Currency:\s*([A-Z]{3})/i)
currencyStarts(ocrText) ==
    {i \in 1..Len(ocrText) :
        /\ MatchAt(ocrText, i, LitCurrency, TRUE)
        /\ LettersAt(ocrText, SkipSpace(ocrText, i + Len(LitCurrency)), 3)}
currencyAt(ocrText, k) == [matched |-> TRUE, group1 |-> SubSeq(ocrText, k, k + 2)]
currencyFirst(ocrText, starts) ==
    IF starts = {} THEN NoMatch
    ELSE currencyAt(ocrText, SkipSpace(ocrText, Least(starts) + Len(LitCurrency)))
currencyMatch(ocrText) == currencyFirst(ocrText, currencyStarts(ocrText))

\* /\d{4}-\d{2}-\d{2}/ at position k
DateAt(s, k) ==
    /\ k + 9 <= Len(s)
    /\ DigitsAt(s, k, 4) /\ s[k + 4] = "-"
    /\ DigitsAt(s, k + 5, 2) /\ s[k + 7] = "-"
    /\ DigitsAt(s, k + 8, 2)
\* ocrText.match(/Date:\s*(\d{4}-\d{2}-\d{2})/)
issueDateStarts(ocrText) ==
    {i \in 1..Len(ocrText) :
        /\ MatchAt(ocrText, i, LitDate, FALSE)
        /\ DateAt(ocrText, SkipSpace(ocrText, i + Len(LitDate)))}
issueDateAt(ocrText, k) == [matched |-> TRUE, group1 |-> SubSeq(ocrText, k, k + 9)]
issueDateFirst(ocrText, starts) ==
    IF starts = {} THEN NoMatch
    ELSE issueDateAt(ocrText, SkipSpace(ocrText, Least(starts) + Len(LitDate)))
issueDateMatch(ocrText) == issueDateFirst(ocrText, issueDateStarts(ocrText))

\* Partial<InvoiceMetadata>: a function from the names of the fields that
\* were set. Strings are sequences of characters, totalAmount is parseFloat's
\* number.
NoMetadata == [f \in {} |-> <<>>]
Field(name, value) == name :> value

\* The assignments of extractInvoiceMetadata, given the five matches.
metadataOf(invoiceNumber, customerName, totalAmount, currency, issueDate) ==
    (IF invoiceNumber.matched
     THEN Field("invoiceNumber", Trim(invoiceNumber.group1)) ELSE NoMetadata)
    @@ (IF customerName.matched
        THEN Field("customerName", Trim(customerName.group1)) ELSE NoMetadata)
    @@ (IF totalAmount.matched
        THEN Field("totalAmount", parseFloat(RemoveCommas(totalAmount.group1)))
        ELSE NoMetadata)
    @@ (IF totalAmount.matched /\ totalAmount.has2
        THEN Field("currency", UpperCaseOf(totalAmount.group2))
        ELSE IF currency.matched THEN Field("currency", UpperCaseOf(currency.group1))
        ELSE NoMetadata)
    @@ (IF issueDate.matched THEN Field("issueDate", issueDate.group1) ELSE NoMetadata)

extractInvoiceMetadata(ocrText) ==
    metadataOf(invoiceNumberMatch(ocrText), customerNameMatch(ocrText),
               totalAmountMatch(ocrText), currencyMatch(ocrText), issueDateMatch(ocrText))

\* The number NaN, and isNaN. (parseFloat of a string that starts with a
\* digit is never NaN.)
NaN == [nan |-> TRUE]
isNaN(x) == "nan" \in DOMAIN x
\* !metadata.f || metadata.f.length === 0, for a string field
MissingOrEmpty(metadata, f) == f \notin DOMAIN metadata \/ metadata[f] = <<>>
\* /^\d{4}-\d{2}-\d{2}$/.test(s)
IsIsoDate(s) == Len(s) = 10 /\ DateAt(s, 1)

ErrInvoiceNumber == "Invoice Number is missing or empty."
ErrCustomerName == "Customer Name is missing or empty."
ErrTotalAmount == "Total Amount is missing, invalid, or zero/negative."
ErrCurrency == "Currency is missing or empty."
ErrIssueDate == "Issue Date is missing or invalid (expected YYYY-MM-DD)."

\* A validation that reports the first failed check only.
validateFirstFailure(metadata) ==
    IF MissingOrEmpty(metadata, "invoiceNumber") THEN <<ErrInvoiceNumber>>
    ELSE IF MissingOrEmpty(metadata, "customerName") THEN <<ErrCustomerName>>
    ELSE IF \/ "totalAmount" \notin DOMAIN metadata
            \/ isNaN(metadata["totalAmount"])
            \/ metadata["totalAmount"].mant <= 0 THEN <<ErrTotalAmount>>
    ELSE IF MissingOrEmpty(metadata, "currency") THEN <<ErrCurrency>>
    ELSE IF "issueDate" \notin DOMAIN metadata \/ ~IsIsoDate(metadata["issueDate"])
         THEN <<ErrIssueDate>>
    ELSE <<>>

validateInvoiceMetadata(metadata) ==
    LET e1 == IF MissingOrEmpty(metadata, "invoiceNumber") THEN <<ErrInvoiceNumber>> ELSE <<>>
        e2 == IF MissingOrEmpty(metadata, "customerName") THEN <<ErrCustomerName>> ELSE <<>>
        e3 == IF \/ "totalAmount" \notin DOMAIN metadata
                 \/ isNaN(metadata["totalAmount"])
                 \/ metadata["totalAmount"].mant <= 0
              THEN <<ErrTotalAmount>> ELSE <<>>
        e4 == IF MissingOrEmpty(metadata, "currency") THEN <<ErrCurrency>> ELSE <<>>
        e5 == IF "issueDate" \notin DOMAIN metadata \/ ~IsIsoDate(metadata["issueDate"])
              THEN <<ErrIssueDate>> ELSE <<>>
    IN  e1 \o e2 \o e3 \o e4 \o e5

\* ------------------------------------------------------ recognised texts
\* The text simulateOCR resolves with.
SimulatedText ==
    <<"\n">> \o
    <<" "," "," "," "," "," "," "," ","I","n","v","o","i","c","e"," ","N","u","m","b","e","r",":"," ","I","N","V","-","2","0","2","5","-","0","0","1","\n">> \o
    <<" "," "," "," "," "," "," "," ","C","u","s","t","o","m","e","r",":"," ","A","c","m","e"," ","C","o","r","p","\n">> \o
    <<" "," "," "," "," "," "," "," ","D","a","t","e",":"," ","2","0","2","5","-","0","7","-","0","8","\n">> \o
    <<" "," "," "," "," "," "," "," ","T","o","t","a","l",":"," ","1","2","3","4",".","5","6"," ","U","S","D","\n">> \o
    <<" "," "," "," "," "," "," "," ","C","u","r","r","e","n","c","y",":"," ","U","S","D","\n">> \o
    <<" "," "," "," "," "," "," "," ","D","e","s","c","r","i","p","t","i","o","n",":"," ","C","o","n","s","u","l","t","i","n","g"," ","S","e","r","v","i","c","e","s","\n">> \o
    <<" "," "," "," "," "," "," "," ","I","t","e","m"," ","1",":"," ","P","r","o","d","u","c","t"," ","A"," ","-"," ","1","0"," ","u","n","i","t","s"," ","@"," ","5","0",".","0","0"," ","U","S","D","\n">> \o
    <<" "," "," "," "," "," "," "," ","I","t","e","m"," ","2",":"," ","P","r","o","d","u","c","t"," ","B"," ","-"," ","5"," ","u","n","i","t","s"," ","@"," ","1","0","0",".","0","0"," ","U","S","D","\n">> \o
    <<" "," "," "," "," "," "," "," ","T","a","x",":"," ","1","0","0",".","0","0"," ","U","S","D","\n">> \o
    <<" "," "," "," "," "," "," "," ","S","u","b","t","o","t","a","l",":"," ","1","1","3","4",".","5","6"," ","U","S","D","\n">> \o
    <<" "," "," "," "," "," "," "," ","V","e","n","d","o","r",":"," ","E","x","a","m","p","l","e"," ","S","o","l","u","t","i","o","n","s"," ","I","n","c",".","\n">> \o
    <<" "," "," "," "," "," "," "," ","A","d","d","r","e","s","s",":"," ","1","2","3"," ","B","u","s","i","n","e","s","s"," ","R","d",","," ","C","i","t","y",","," ","C","o","u","n","t","r","y","\n">> \o
    <<" "," "," "," "," "," "," "," ","V","A","T"," ","I","D",":"," ","G","B","1","2","3","4","5","6","7","8","9","\n">> \o
    <<" "," "," "," "," "," ">>

\* The same text without its Customer line.
NoCustomerText ==
    <<"\n">> \o
    <<" "," "," "," "," "," "," "," ","I","n","v","o","i","c","e"," ","N","u","m","b","e","r",":"," ","I","N","V","-","2","0","2","5","-","0","0","1","\n">> \o
    <<" "," "," "," "," "," "," "," ","D","a","t","e",":"," ","2","0","2","5","-","0","7","-","0","8","\n">> \o
    <<" "," "," "," "," "," "," "," ","T","o","t","a","l",":"," ","1","2","3","4",".","5","6"," ","U","S","D","\n">> \o
    <<" "," "," "," "," "," "," "," ","C","u","r","r","e","n","c","y",":"," ","U","S","D","\n">> \o
    <<" "," "," "," "," "," "," "," ","D","e","s","c","r","i","p","t","i","o","n",":"," ","C","o","n","s","u","l","t","i","n","g"," ","S","e","r","v","i","c","e","s","\n">> \o
    <<" "," "," "," "," "," "," "," ","I","t","e","m"," ","1",":"," ","P","r","o","d","u","c","t"," ","A"," ","-"," ","1","0"," ","u","n","i","t","s"," ","@"," ","5","0",".","0","0"," ","U","S","D","\n">> \o
    <<" "," "," "," "," "," "," "," ","I","t","e","m"," ","2",":"," ","P","r","o","d","u","c","t"," ","B"," ","-"," ","5"," ","u","n","i","t","s"," ","@"," ","1","0","0",".","0","0"," ","U","S","D","\n">> \o
    <<" "," "," "," "," "," "," "," ","T","a","x",":"," ","1","0","0",".","0","0"," ","U","S","D","\n">> \o
    <<" "," "," "," "," "," "," "," ","S","u","b","t","o","t","a","l",":"," ","1","1","3","4",".","5","6"," ","U","S","D","\n">> \o
    <<" "," "," "," "," "," "," "," ","V","e","n","d","o","r",":"," ","E","x","a","m","p","l","e"," ","S","o","l","u","t","i","o","n","s"," ","I","n","c",".","\n">> \o
    <<" "," "," "," "," "," "," "," ","A","d","d","r","e","s","s",":"," ","1","2","3"," ","B","u","s","i","n","e","s","s"," ","R","d",","," ","C","i","t","y",","," ","C","o","u","n","t","r","y","\n">> \o
    <<" "," "," "," "," "," "," "," ","V","A","T"," ","I","D",":"," ","G","B","1","2","3","4","5","6","7","8","9","\n">> \o
    <<" "," "," "," "," "," ">>

\* ------------------------------------------------------------- identifiers
\* The uuids the upload endpoint hands out, in the order it hands them out,
\* and one id that names no record.
DocNames == <<"doc1", "doc2", "doc3", "doc4">>
DocIds == {DocNames[i] : i \in 1..NumDocs}
UnknownId == "doc0"

Topics ==
    {"document_queue", "ocr_result_queue", "validation_queue",
     "dlq_ocr_failed", "dlq_validation_failed", "dlq_persistence_failed"}
InputTopics == {"document_queue", "ocr_result_queue", "validation_queue"}

\* One consumer of ocr_processor_group, two of validation_processor_group
\* (two instances of the validation service), one of
\* persistence_processor_group.
OcrWorkers == {"ocr_worker_1"}
ValidationWorkers == {"validation_worker_1", "validation_worker_2"}
PersistenceWorkers == {"persistence_worker_1"}
Workers == OcrWorkers \cup ValidationWorkers \cup PersistenceWorkers

\* STREAM_KEY of the service a worker runs; the group is the one group of
\* that topic (GROUP_NAME).
STREAM_KEY(w) ==
    IF w \in OcrWorkers THEN "document_queue"
    ELSE IF w \in ValidationWorkers THEN "ocr_result_queue"
    ELSE "validation_queue"

\* DocumentStatus
DocumentStatus ==
    {"UPLOADED", "OCR_PENDING", "OCR_COMPLETED", "OCR_FAILED", "VALIDATION_PENDING",
     "VALIDATED", "VALIDATION_FAILED", "PERSISTENCE_PENDING", "PERSISTED", "FAILED"}

\* A text in which no field is found.
UnreadableText == <<"?", "?", "?">>
\* Texts by name: the text simulateOCR returns, and texts on which
\* extraction and validation take their other branches. A stored ocrResult
\* holds the name of its text.
TextOf ==
    [simulated |-> SimulatedText, noCustomer |-> NoCustomerText, empty |-> <<>>,
     unreadable |-> UnreadableText]
OcrTexts == DOMAIN TextOf
\* OCRResult
OCRResult(text) == [text |-> text, confidence |-> "0.98", language |-> "en"]
\* simulateOCR: the same result for every input.
simulateOCR == OCRResult("simulated")

\* extractInvoiceMetadata and validateInvoiceMetadata on each text.
ExtractedOf ==
    [simulated |-> extractInvoiceMetadata(SimulatedText),
     noCustomer |-> extractInvoiceMetadata(NoCustomerText),
     empty |-> extractInvoiceMetadata(<<>>),
     unreadable |-> extractInvoiceMetadata(UnreadableText)]
ErrorsFor(extracted) ==
    [simulated |-> validateInvoiceMetadata(extracted["simulated"]),
     noCustomer |-> validateInvoiceMetadata(extracted["noCustomer"]),
     empty |-> validateInvoiceMetadata(extracted["empty"]),
     unreadable |-> validateInvoiceMetadata(extracted["unreadable"])]
ErrorsOf == ErrorsFor(ExtractedOf)

\* ------------------------------------------------------------------- state
VARIABLES
    rec,        \* Redis hashes document:<id>: id -> (field name -> value)
    content,    \* Redis strings document_content:<id>: the ids that have one
    stream,     \* Redis streams: topic -> sequence of entries (flat field lists)
    group,      \* consumer group of each input topic
    pc,         \* worker -> the call it awaits
    cur,        \* worker -> messageId of the entry in flight (0: none)
    documentId, \* worker -> documentId of the handler invocation
    document,   \* worker -> the handler's local `document`
    error,      \* worker -> message of the error the handler caught
    escaped,    \* worker -> the call whose exception reached the loop's catch
    upload,     \* the upload endpoint: the call it awaits, its document, the ids answered 202
    faults,     \* Redis calls that have thrown
    foreign,    \* entries appended by other producers, and the ids they name
    left        \* history: id -> the statuses the record had and no longer has

vars ==
    <<rec, content, stream, group, pc, cur, documentId, document, error, escaped,
      upload, faults, foreign, left>>

\* An empty Redis hash: what HGETALL returns for a key that does not exist.
EmptyHash == [f \in {} |-> ""]
\* The handler's `let document: Document | null = null`.
NullDocument == [null |-> TRUE, hash |-> EmptyHash]
NoError == ""
RedisError == "Connection is closed."

\* HGETALL document:<id>
hgetall(id) == IF id \in DOMAIN rec THEN rec[id] ELSE EmptyHash
\* HSET document:<id> field value ...: the hash after the call
hset(id, fields) == [rec EXCEPT ![id] = fields @@ hgetall(id)]
\* await RedisClient.hset(`document:${id}`, ..., 'status', <status>, ...): the
\* write, and the status it replaces entered in the history.
Hset(id, fields) ==
    /\ rec' = hset(id, fields)
    /\ left' = [left EXCEPT ![id] =
                    IF "status" \in DOMAIN hgetall(id) /\ hgetall(id)["status"] # fields.status
                    THEN @ \cup {hgetall(id)["status"]}
                    ELSE @]

\* XADD topic * field value ...
xadd(topic, data) == [stream EXCEPT ![topic] = Append(@, data)]
\* An XACK that names the entry before the one in flight.
xackPrevious(topic, id) == [group EXCEPT ![topic].pel = {p \in @ : p.id # id - 1}]
\* An XACK that empties the group's pending entries.
xackAll(topic, id) == [group EXCEPT ![topic].pel = {}]
\* XACK topic group id: the group's pending entries after the call
xack(topic, id) == [group EXCEPT ![topic].pel = {p \in @ : p.id # id}]
\* The status field of a stored hash ("" when there is none).
StatusOf(id) == IF "status" \in DOMAIN hgetall(id) THEN hgetall(id)["status"] ELSE ""

\* A Redis call may throw while fewer than MaxFaults calls have thrown.
CanFail == faults < MaxFaults

\* data.indexOf('documentId'), 0-based, -1 when absent
indexOf(data, x) ==
    IF \E i \in 1..Len(data) : data[i] = x
    THEN Least({i \in 1..Len(data) : data[i] = x}) - 1
    ELSE -1
\* A lookup that takes the first field's value for the documentId.
documentIdFirstValue(data) == IF Len(data) >= 2 THEN data[2] ELSE ""
\* documentIdIndex !== -1 ? data[documentIdIndex + 1] : null; null, undefined
\* and '' are all falsy, and are "" here.
documentIdOf(data) ==
    LET documentIdIndex == indexOf(data, "documentId")
    IN  IF documentIdIndex # -1 /\ documentIdIndex + 2 <= Len(data)
        THEN data[documentIdIndex + 2]
        ELSE ""

Init ==
    /\ rec = [id \in DocIds \cup {UnknownId} |-> EmptyHash]
    /\ content = {}
    /\ stream = [t \in Topics |-> <<>>]
    /\ group = [t \in InputTopics |-> [created |-> FALSE, last |-> 0, pel |-> {}]]
    /\ pc = [w \in Workers |-> "xgroup"]
    /\ cur = [w \in Workers |-> 0]
    /\ documentId = [w \in Workers |-> ""]
    /\ document = [w \in Workers |-> NullDocument]
    /\ error = [w \in Workers |-> NoError]
    /\ escaped = [w \in Workers |-> "none"]
    /\ upload = [pc |-> "idle", n |-> 0, accepted |-> {}]
    /\ faults = 0
    /\ foreign = [n |-> 0, ids |-> {}]
    /\ left = [id \in DocIds \cup {UnknownId} |-> {}]

\* --------------------------------------------------------- upload endpoint
\* The document of the request in progress.
UploadId == DocNames[upload.n]
UploadFails ==
    /\ CanFail
    /\ faults' = faults + 1
    /\ upload' = [upload EXCEPT !.pc = "idle"]
    /\ UNCHANGED <<rec, left, content, stream>>

\* An upload that appends its entry with the write of the record, before the
\* payload is stored.
UploadHsetEmits ==
    /\ upload.pc = "idle"
    /\ upload.n < NumDocs
    /\ Hset(DocNames[upload.n + 1],
            [id |-> DocNames[upload.n + 1], filename |-> "invoice.pdf",
             status |-> "UPLOADED", createdAt |-> "t0"])
    /\ stream' = xadd("document_queue",
                      <<"documentId", DocNames[upload.n + 1], "status", "UPLOADED">>)
    /\ upload' = [upload EXCEPT !.pc = "set", !.n = @ + 1]
    /\ UNCHANGED <<content, group, pc, cur, documentId, document, error, escaped, faults, foreign>>

\* POST /upload: uuidv4(), then HSET document:<id> with status UPLOADED.
UploadHset ==
    /\ upload.pc = "idle"
    /\ upload.n < NumDocs
    /\ LET id == DocNames[upload.n + 1]
       IN  \/ /\ Hset(id, [id |-> id, filename |-> "invoice.pdf",
                                   status |-> "UPLOADED", createdAt |-> "t0"])
              /\ upload' = [upload EXCEPT !.pc = "set", !.n = @ + 1]
              /\ UNCHANGED faults
           \/ /\ CanFail
              /\ faults' = faults + 1
              /\ upload' = [upload EXCEPT !.pc = "idle", !.n = @ + 1]
              /\ UNCHANGED <<rec, left>>
    /\ UNCHANGED <<content, stream, group, pc, cur, documentId, document, error, escaped, foreign>>

\* SET document_content:<id>
UploadSet ==
    /\ upload.pc = "set"
    /\ \/ /\ content' = content \cup {UploadId}
          /\ upload' = [upload EXCEPT !.pc = "xadd"]
          /\ UNCHANGED <<rec, left, stream, faults>>
       \/ UploadFails
    /\ UNCHANGED <<group, pc, cur, documentId, document, error, escaped, foreign>>

\* XADD document_queue * documentId <id> status UPLOADED, then
\* res.status(202): the id joins the accepted uploads.
UploadXadd ==
    /\ upload.pc = "xadd"
    /\ \/ /\ stream' = xadd("document_queue", <<"documentId", UploadId, "status", "UPLOADED">>)
          /\ upload' = [upload EXCEPT !.pc = "idle", !.accepted = @ \cup {UploadId}]
          /\ UNCHANGED <<rec, left, content, faults>>
       \/ UploadFails
    /\ UNCHANGED <<group, pc, cur, documentId, document, error, escaped, foreign>>

\* ------------------------------------------------- other producers of a topic
\* The status tag entries of a topic carry.
TopicTag(topic) ==
    IF topic = "document_queue" THEN "UPLOADED"
    ELSE IF topic = "ocr_result_queue" THEN "OCR_COMPLETED"
    ELSE "VALIDATED"
\* A producer that is not this code appends to an input topic: an entry for
\* a document (a duplicate or a late entry), for an id that has no record, or
\* one without a documentId field.
ForeignAppend ==
    /\ foreign.n < MaxForeign
    /\ \E topic \in InputTopics :
       \E data \in {<<"documentId", id, "status", TopicTag(topic)>> : id \in DocIds \cup {UnknownId}}
                     \cup {<<"status", TopicTag(topic)>>} :
          /\ stream' = xadd(topic, data)
          /\ foreign' = [n |-> foreign.n + 1, ids |-> foreign.ids \cup {documentIdOf(data)}]
    /\ UNCHANGED <<rec, left, content, group, pc, cur, documentId, document, error, escaped, upload, faults>>

\* ---------------------------------------------------------- processor loop
\* What a worker step leaves alone unless it says otherwise.
Goto(w, p) == pc' = [pc EXCEPT ![w] = p]
ClearLocals(w) ==
    /\ document' = [document EXCEPT ![w] = NullDocument]
    /\ error' = [error EXCEPT ![w] = NoError]

\* The pending entry of the worker's message, marked.
MarkPending(w, field) ==
    [group EXCEPT ![STREAM_KEY(w)].pel =
        {IF p.id = cur[w] THEN [p EXCEPT ![field] = TRUE] ELSE p : p \in @}]

\* A start that creates the group at the beginning of the topic (id 0).
StartProcessorFromStart(w) ==
    /\ pc[w] = "xgroup"
    /\ \/ /\ ~group[STREAM_KEY(w)].created
          /\ group' = [group EXCEPT ![STREAM_KEY(w)] =
                          [created |-> TRUE, last |-> 0, pel |-> {}]]
          /\ Goto(w, "xreadgroup")
          /\ UNCHANGED faults
       \/ /\ group[STREAM_KEY(w)].created
          /\ Goto(w, "xreadgroup")
          /\ UNCHANGED <<group, faults>>
       \/ /\ CanFail
          /\ faults' = faults + 1
          /\ Goto(w, "exited")
          /\ UNCHANGED group
    /\ UNCHANGED <<rec, left, content, stream, cur, documentId, document, error, escaped, upload, foreign>>

\* A start that creates the group anew when it exists already.
StartProcessorRecreates(w) ==
    /\ pc[w] = "xgroup"
    /\ \/ /\ group' = [group EXCEPT ![STREAM_KEY(w)] =
                          [created |-> TRUE, last |-> Len(stream[STREAM_KEY(w)]), pel |-> {}]]
          /\ Goto(w, "xreadgroup")
          /\ UNCHANGED faults
       \/ /\ CanFail
          /\ faults' = faults + 1
          /\ Goto(w, "exited")
          /\ UNCHANGED group
    /\ UNCHANGED <<rec, left, content, stream, cur, documentId, document, error, escaped, upload, foreign>>

\* xgroup('CREATE', STREAM_KEY, GROUP_NAME, '$', 'MKSTREAM'): BUSYGROUP is
\* logged, any other error ends the process.
StartProcessor(w) ==
    /\ pc[w] = "xgroup"
    /\ \/ /\ ~group[STREAM_KEY(w)].created
          /\ group' = [group EXCEPT ![STREAM_KEY(w)] =
                          [created |-> TRUE, last |-> Len(stream[STREAM_KEY(w)]), pel |-> {}]]
          /\ Goto(w, "xreadgroup")
          /\ UNCHANGED faults
       \/ /\ group[STREAM_KEY(w)].created
          /\ Goto(w, "xreadgroup")
          /\ UNCHANGED <<group, faults>>
       \/ /\ CanFail
          /\ faults' = faults + 1
          /\ Goto(w, "exited")
          /\ UNCHANGED group
    /\ UNCHANGED <<rec, left, content, stream, cur, documentId, document, error, escaped, upload, foreign>>

\* An xreadgroup that hands out the next entry and leaves the group's
\* last-delivered id where it was.
ReadNextAgain(w) ==
    /\ pc[w] = "xreadgroup"
    /\ group[STREAM_KEY(w)].last < Len(stream[STREAM_KEY(w)])
    /\ LET messageId == group[STREAM_KEY(w)].last + 1
           data == stream[STREAM_KEY(w)][messageId]
       IN  /\ group' = [group EXCEPT ![STREAM_KEY(w)].pel = @ \cup
                                         {[id |-> messageId, consumer |-> w,
                                           returned |-> FALSE, ackFailed |-> FALSE]}]
           /\ cur' = [cur EXCEPT ![w] = messageId]
           /\ documentId' = [documentId EXCEPT ![w] = documentIdOf(data)]
           /\ Goto(w, IF documentIdOf(data) # "" THEN "hgetall" ELSE "xack")
    /\ UNCHANGED <<faults, escaped>>
    /\ UNCHANGED <<rec, left, content, stream, document, error, upload, foreign>>

\* An xreadgroup that hands out the newest entry of the topic first.
ReadNextNewest(w) ==
    /\ pc[w] = "xreadgroup"
    /\ group[STREAM_KEY(w)].last < Len(stream[STREAM_KEY(w)])
    /\ LET messageId == Len(stream[STREAM_KEY(w)])
           data == stream[STREAM_KEY(w)][messageId]
       IN  /\ group' = [group EXCEPT ![STREAM_KEY(w)].last = @ + 1,
                                     ![STREAM_KEY(w)].pel = @ \cup
                                         {[id |-> messageId, consumer |-> w,
                                           returned |-> FALSE, ackFailed |-> FALSE]}]
           /\ cur' = [cur EXCEPT ![w] = messageId]
           /\ documentId' = [documentId EXCEPT ![w] = documentIdOf(data)]
           /\ Goto(w, IF documentIdOf(data) # "" THEN "hgetall" ELSE "xack")
    /\ UNCHANGED <<faults, escaped>>
    /\ UNCHANGED <<rec, left, content, stream, document, error, upload, foreign>>

\* xreadgroup(GROUP, CONSUMER, COUNT 1, BLOCK 0, STREAMS, STREAM_KEY, '>'):
\* the first entry never delivered to the group; it enters the group's
\* pending entries under this consumer. With a documentId the handler is
\* called (and runs up to its first await), without one the entry goes to
\* xack.
ReadNext(w) ==
    /\ pc[w] = "xreadgroup"
    /\ \/ /\ group[STREAM_KEY(w)].last < Len(stream[STREAM_KEY(w)])
          /\ LET messageId == group[STREAM_KEY(w)].last + 1
                 data == stream[STREAM_KEY(w)][messageId]
             IN  /\ group' = [group EXCEPT ![STREAM_KEY(w)].last = messageId,
                                           ![STREAM_KEY(w)].pel = @ \cup
                                               {[id |-> messageId, consumer |-> w,
                                                 returned |-> FALSE, ackFailed |-> FALSE]}]
                 /\ cur' = [cur EXCEPT ![w] = messageId]
                 /\ documentId' = [documentId EXCEPT ![w] = documentIdOf(data)]
                 /\ Goto(w, IF documentIdOf(data) # "" THEN "hgetall" ELSE "xack")
          /\ UNCHANGED <<faults, escaped>>
       \/ /\ CanFail
          /\ faults' = faults + 1
          /\ escaped' = [escaped EXCEPT ![w] = "xreadgroup"]
          /\ Goto(w, "delay")
          /\ UNCHANGED <<group, cur, documentId>>
    /\ UNCHANGED <<rec, left, content, stream, document, error, upload, foreign>>

\* xack(STREAM_KEY, GROUP_NAME, messageId); a throw reaches the loop's catch.
Ack(w) ==
    \/ /\ group' = xack(STREAM_KEY(w), cur[w])
       /\ cur' = [cur EXCEPT ![w] = 0]
       /\ documentId' = [documentId EXCEPT ![w] = ""]
       /\ Goto(w, "xreadgroup")
       /\ UNCHANGED <<faults, escaped>>
    \/ /\ CanFail
       /\ faults' = faults + 1
       /\ group' = MarkPending(w, "ackFailed")
       /\ escaped' = [escaped EXCEPT ![w] = "xack"]
       /\ Goto(w, "delay")
       /\ UNCHANGED <<cur, documentId>>

\* if (documentId) { await handler(documentId); await xack(...) }
AckHandled(w) ==
    /\ pc[w] = "xack"
    /\ documentId[w] # ""
    /\ Ack(w)
    /\ UNCHANGED <<rec, left, content, stream, document, error, upload, foreign>>

\* else { warn; await xack(...) }
AckMalformed(w) ==
    /\ pc[w] = "xack"
    /\ documentId[w] = ""
    /\ Ack(w)
    /\ UNCHANGED <<rec, left, content, stream, document, error, upload, foreign>>

\* catch (error) { await new Promise(resolve => setTimeout(resolve, 5000)) }
\* and the next iteration of while (true).
RetryDelay(w) ==
    /\ pc[w] = "delay"
    /\ Goto(w, "xreadgroup")
    /\ cur' = [cur EXCEPT ![w] = 0]
    /\ documentId' = [documentId EXCEPT ![w] = ""]
    /\ escaped' = [escaped EXCEPT ![w] = "none"]
    /\ ClearLocals(w)
    /\ UNCHANGED <<rec, left, content, stream, group, upload, faults, foreign>>

\* ------------------------------------------------------- handlers: shared
\* A loop that reads on when the handler returns, without the xack.
ReturnReadsOn(w) ==
    /\ Goto(w, "xreadgroup")
    /\ ClearLocals(w)
    /\ group' = MarkPending(w, "returned")
    /\ UNCHANGED <<cur, documentId, escaped>>
\* The handler returns to the loop, which awaits xack next.
Return(w) ==
    /\ Goto(w, "xack")
    /\ ClearLocals(w)
    /\ group' = MarkPending(w, "returned")
    /\ UNCHANGED <<cur, documentId, escaped>>
\* A loop that calls the handler without awaiting it: the xack goes out
\* while the handler is at its next call.
ContinueUnawaited(w, p) ==
    /\ Goto(w, p)
    /\ group' = xack(STREAM_KEY(w), cur[w])
    /\ UNCHANGED <<cur, documentId, document, error, escaped>>
\* The handler goes on to its next await.
Continue(w, p) ==
    /\ Goto(w, p)
    /\ UNCHANGED <<group, cur, documentId, document, error, escaped>>
\* A throw inside try: the catch block runs, with `document` set.
Catch(w, message) ==
    /\ Goto(w, "catch_hset")
    /\ error' = [error EXCEPT ![w] = message]
    /\ UNCHANGED <<group, cur, documentId, document, escaped>>
\* An awaited Redis call inside try throws.
CallThrows(w) ==
    /\ CanFail
    /\ faults' = faults + 1
    /\ Catch(w, RedisError)
\* A throw inside the catch block leaves the handler.
Escapes(w) ==
    /\ CanFail
    /\ faults' = faults + 1
    /\ Goto(w, "delay")
    /\ escaped' = [escaped EXCEPT ![w] = "handler"]
    /\ ClearLocals(w)
    /\ UNCHANGED <<group, cur, documentId>>

\* A not-found case that throws into the catch block instead of returning.
HgetallMissesThrows(w) ==
    /\ Catch(w, "Document not found")
    /\ UNCHANGED faults
\* const docHash = await hgetall(`document:${documentId}`): nothing found
\* returns; a throw is caught with document === null, and returns.
HgetallMisses(w) ==
    \/ /\ hgetall(documentId[w]) = EmptyHash
       /\ Return(w)
       /\ UNCHANGED faults
    \/ /\ CanFail
       /\ faults' = faults + 1
       /\ Return(w)

\* A catch block that discards the payload of the document it marks.
CatchHsetDiscards(w, status) ==
    /\ pc[w] = "catch_hset"
    /\ \/ /\ Hset(documentId[w], [status |-> status])
          /\ content' = content \ {documentId[w]}
          /\ Continue(w, "catch_xadd")
          /\ UNCHANGED faults
       \/ /\ Escapes(w)
          /\ UNCHANGED <<rec, left, content>>
    /\ UNCHANGED <<stream, upload, foreign>>

\* A catch block that appends the dead-letter entry without writing the
\* failure status first.
CatchHsetSkips(w, status) ==
    /\ pc[w] = "catch_hset"
    /\ Continue(w, "catch_xadd")
    /\ UNCHANGED <<rec, left, faults>>
    /\ UNCHANGED <<content, stream, upload, foreign>>

\* catch: if (document) { await hset(status, <failure status>) ... }
CatchHset(w, status) ==
    /\ pc[w] = "catch_hset"
    /\ \/ /\ Hset(documentId[w], [status |-> status])
          /\ Continue(w, "catch_xadd")
          /\ UNCHANGED faults
       \/ /\ Escapes(w)
          /\ UNCHANGED <<rec, left>>
    /\ UNCHANGED <<content, stream, upload, foreign>>

\* catch: await xadd(<dead-letter topic>, '*', 'documentId', id, 'error', message)
CatchXadd(w, topic) ==
    /\ pc[w] = "catch_xadd"
    /\ \/ /\ stream' = xadd(topic, <<"documentId", documentId[w], "error", error[w]>>)
          /\ Return(w)
          /\ UNCHANGED faults
       \/ /\ Escapes(w)
          /\ UNCHANGED stream
    /\ UNCHANGED <<rec, left, content, upload, foreign>>

\* ------------------------------------------------------------ OCR processor
\* processDocumentForOCR: hgetall, and `document` from the hash.
OcrHgetall(w) ==
    /\ w \in OcrWorkers
    /\ pc[w] = "hgetall"
    /\ \/ HgetallMisses(w)
       \/ /\ hgetall(documentId[w]) # EmptyHash
          /\ document' = [document EXCEPT ![w] = [null |-> FALSE, hash |-> hgetall(documentId[w])]]
          /\ Goto(w, "getBuffer")
          /\ UNCHANGED <<group, cur, documentId, error, escaped, faults>>
    /\ UNCHANGED <<rec, left, content, stream, upload, foreign>>

\* originalContent = await getBuffer(`document_content:${documentId}`);
\* if (!originalContent) throw new Error(...)
OcrGetBuffer(w) ==
    /\ w \in OcrWorkers
    /\ pc[w] = "getBuffer"
    /\ \/ /\ documentId[w] \in content
          /\ Continue(w, "hset_pending")
          /\ UNCHANGED faults
       \/ /\ documentId[w] \notin content
          /\ Catch(w, "Original content not found for document")
          /\ UNCHANGED faults
       \/ CallThrows(w)
    /\ UNCHANGED <<rec, left, content, stream, upload, foreign>>

\* An hset of OCR_PENDING that writes the creation time again.
OcrHsetPendingStamps(w) ==
    /\ w \in OcrWorkers
    /\ pc[w] = "hset_pending"
    /\ \/ /\ Hset(documentId[w], [status |-> "OCR_PENDING", createdAt |-> "t1"])
          /\ Continue(w, "hset_result")
          /\ UNCHANGED faults
       \/ /\ CallThrows(w)
          /\ UNCHANGED <<rec, left>>
    /\ UNCHANGED <<content, stream, upload, foreign>>

\* await hset('status', 'OCR_PENDING')
OcrHsetPending(w) ==
    /\ w \in OcrWorkers
    /\ pc[w] = "hset_pending"
    /\ \/ /\ Hset(documentId[w], [status |-> "OCR_PENDING"])
          /\ Continue(w, "hset_result")
          /\ UNCHANGED faults
       \/ /\ CallThrows(w)
          /\ UNCHANGED <<rec, left>>
    /\ UNCHANGED <<content, stream, upload, foreign>>

\* A recognition handler that appends downstream together with its write of
\* the result, before it is done.
OcrHsetCompletedEmits(w) ==
    /\ w \in OcrWorkers
    /\ pc[w] = "hset_result"
    /\ Hset(documentId[w], [ocrResult |-> simulateOCR, status |-> "OCR_COMPLETED"])
    /\ stream' = xadd("ocr_result_queue",
                      <<"documentId", documentId[w], "status", "OCR_COMPLETED">>)
    /\ Continue(w, "xadd_next")
    /\ UNCHANGED <<content, upload, foreign, faults>>

\* ocrResult = await simulateOCR(...); await hset('ocrResult', ..., 'status',
\* 'OCR_COMPLETED'). The recognition call touches no shared state and does not
\* reject.
OcrHsetCompleted(w) ==
    /\ w \in OcrWorkers
    /\ pc[w] = "hset_result"
    /\ \/ /\ Hset(documentId[w], [ocrResult |-> simulateOCR, status |-> "OCR_COMPLETED"])
          /\ Continue(w, "xadd_next")
          /\ UNCHANGED faults
       \/ /\ CallThrows(w)
          /\ UNCHANGED <<rec, left>>
    /\ UNCHANGED <<content, stream, upload, foreign>>

\* A forward xadd after which the try block throws.
OcrXaddNextThenThrows(w) ==
    /\ w \in OcrWorkers
    /\ pc[w] = "xadd_next"
    /\ stream' = xadd("ocr_result_queue",
                      <<"documentId", documentId[w], "status", "OCR_COMPLETED">>)
    /\ Catch(w, "Unknown error")
    /\ UNCHANGED <<rec, left, content, upload, foreign, faults>>

\* await xadd('ocr_result_queue', '*', 'documentId', id, 'status', 'OCR_COMPLETED')
OcrXaddNext(w) ==
    /\ w \in OcrWorkers
    /\ pc[w] = "xadd_next"
    /\ \/ /\ stream' = xadd("ocr_result_queue",
                            <<"documentId", documentId[w], "status", "OCR_COMPLETED">>)
          /\ Return(w)
          /\ UNCHANGED faults
       \/ /\ CallThrows(w)
          /\ UNCHANGED stream
    /\ UNCHANGED <<rec, left, content, upload, foreign>>

OcrCatchHset(w) == w \in OcrWorkers /\ CatchHset(w, "OCR_FAILED")
OcrCatchXadd(w) == w \in OcrWorkers /\ CatchXadd(w, "dlq_ocr_failed")

processDocumentForOCR(w) ==
    \/ OcrHgetall(w) \/ OcrGetBuffer(w) \/ OcrHsetPending(w) \/ OcrHsetCompleted(w)
    \/ OcrXaddNext(w) \/ OcrCatchHset(w) \/ OcrCatchXadd(w)

\* ------------------------------------------------------- validation service
\* processDocumentForValidation: hgetall, `document` from the hash, and
\* if (!document.ocrResult || !document.ocrResult.text) throw new Error(...)
ValHgetall(w) ==
    /\ w \in ValidationWorkers
    /\ pc[w] = "hgetall"
    /\ \/ HgetallMisses(w)
       \/ /\ hgetall(documentId[w]) # EmptyHash
          /\ document' = [document EXCEPT ![w] = [null |-> FALSE, hash |-> hgetall(documentId[w])]]
          /\ IF "ocrResult" \notin DOMAIN hgetall(documentId[w])
                \/ TextOf[hgetall(documentId[w])["ocrResult"].text] = <<>>
             THEN /\ Goto(w, "catch_hset")
                  /\ error' = [error EXCEPT ![w] = "OCR result missing for document"]
             ELSE /\ Goto(w, "hset_pending")
                  /\ UNCHANGED error
          /\ UNCHANGED <<group, cur, documentId, escaped, faults>>
    /\ UNCHANGED <<rec, left, content, stream, upload, foreign>>

\* A validation handler that appends its entry downstream before it has
\* written its result.
ValHsetPendingEmits(w) ==
    /\ w \in ValidationWorkers
    /\ pc[w] = "hset_pending"
    /\ Hset(documentId[w], [status |-> "VALIDATION_PENDING"])
    /\ stream' = xadd("validation_queue", <<"documentId", documentId[w], "status", "VALIDATED">>)
    /\ Continue(w, "hset_result")
    /\ UNCHANGED <<content, upload, foreign, faults>>

\* await hset('status', 'VALIDATION_PENDING')
ValHsetPending(w) ==
    /\ w \in ValidationWorkers
    /\ pc[w] = "hset_pending"
    /\ \/ /\ Hset(documentId[w], [status |-> "VALIDATION_PENDING"])
          /\ Continue(w, "hset_result")
          /\ UNCHANGED faults
       \/ /\ CallThrows(w)
          /\ UNCHANGED <<rec, left>>
    /\ UNCHANGED <<content, stream, upload, foreign>>

\* Fields that keep only the first failure message.
ValidationFieldsFirst(extractedMetadata, validationErrors) ==
    IF Len(validationErrors) > 0
    THEN [extractedMetadata |-> extractedMetadata,
          validationErrors |-> <<validationErrors[1]>>,
          status |-> "VALIDATION_FAILED"]
    ELSE [extractedMetadata |-> extractedMetadata, status |-> "VALIDATED"]
\* The fields of the hset that follows validation.
ValidationFields(extractedMetadata, validationErrors) ==
    IF Len(validationErrors) > 0
    THEN [extractedMetadata |-> extractedMetadata,
          validationErrors |-> validationErrors,
          status |-> "VALIDATION_FAILED"]
    ELSE [extractedMetadata |-> extractedMetadata, status |-> "VALIDATED"]

\* extractInvoiceMetadata, validateInvoiceMetadata on document.ocrResult.text,
\* document.status = ..., then await hset(extractedMetadata, [validationErrors,]
\* status)
ValHsetResultOf(w, fields) ==
    \/ /\ Hset(documentId[w], fields)
       /\ document' = [document EXCEPT ![w].hash = [status |-> fields.status] @@ @]
       /\ Goto(w, "xadd_next")
       /\ UNCHANGED <<group, cur, documentId, error, escaped, faults>>
    \/ /\ CallThrows(w)
       /\ UNCHANGED <<rec, left>>
\* A second run that stores what another text would give.
ValHsetResultOther(w) ==
    /\ w \in ValidationWorkers
    /\ pc[w] = "hset_result"
    /\ ValHsetResultOf(w, ValidationFields(
           IF "extractedMetadata" \in DOMAIN document[w].hash
           THEN ExtractedOf["unreadable"]
           ELSE ExtractedOf[document[w].hash["ocrResult"].text], <<>>))
    /\ UNCHANGED <<content, stream, upload, foreign>>
ValHsetResult(w) ==
    /\ w \in ValidationWorkers
    /\ pc[w] = "hset_result"
    /\ ValHsetResultOf(w, ValidationFields(ExtractedOf[document[w].hash["ocrResult"].text],
                                           ErrorsOf[document[w].hash["ocrResult"].text]))
    /\ UNCHANGED <<content, stream, upload, foreign>>

\* A forward xadd that appends its entry twice.
ValXaddNextTwice(w) ==
    /\ w \in ValidationWorkers
    /\ pc[w] = "xadd_next"
    /\ stream' = [stream EXCEPT !["validation_queue"] =
                      Append(Append(@, <<"documentId", documentId[w], "status", document[w].hash["status"]>>),
                             <<"documentId", documentId[w], "status", document[w].hash["status"]>>)]
    /\ Return(w)
    /\ UNCHANGED <<rec, left, content, upload, foreign, faults>>

\* await xadd('validation_queue', '*', 'documentId', id, 'status', <status>)
ValXaddNext(w) ==
    /\ w \in ValidationWorkers
    /\ pc[w] = "xadd_next"
    /\ \/ /\ stream' = xadd("validation_queue",
                            <<"documentId", documentId[w], "status", document[w].hash["status"]>>)
          /\ Return(w)
          /\ UNCHANGED faults
       \/ /\ CallThrows(w)
          /\ UNCHANGED stream
    /\ UNCHANGED <<rec, left, content, upload, foreign>>

ValCatchHset(w) == w \in ValidationWorkers /\ CatchHset(w, "VALIDATION_FAILED")
ValCatchXadd(w) == w \in ValidationWorkers /\ CatchXadd(w, "dlq_validation_failed")

processDocumentForValidation(w) ==
    \/ ValHgetall(w) \/ ValHsetPending(w) \/ ValHsetResult(w)
    \/ ValXaddNext(w) \/ ValCatchHset(w) \/ ValCatchXadd(w)

\* ------------------------------------------------------ persistence service
\* A persistDocument that treats every status but VALIDATED as a failed
\* validation.
PerHgetallElseFailed(w) ==
    /\ w \in PersistenceWorkers
    /\ pc[w] = "hgetall"
    /\ \/ HgetallMisses(w)
       \/ /\ hgetall(documentId[w]) # EmptyHash
          /\ document' = [document EXCEPT ![w] = [null |-> FALSE, hash |-> hgetall(documentId[w])]]
          /\ Goto(w, IF StatusOf(documentId[w]) = "VALIDATED" THEN "hset_persisted" ELSE "hset_failed")
          /\ UNCHANGED <<group, cur, documentId, error, escaped, faults>>
    /\ UNCHANGED <<rec, left, content, stream, upload, foreign>>

\* persistDocument: hgetall, `document` from the hash, and the branch on
\* document.status.
PerHgetall(w) ==
    /\ w \in PersistenceWorkers
    /\ pc[w] = "hgetall"
    /\ \/ HgetallMisses(w)
       \/ /\ hgetall(documentId[w]) # EmptyHash
          /\ StatusOf(documentId[w]) \in {"VALIDATED", "VALIDATION_FAILED"}
          /\ document' = [document EXCEPT ![w] = [null |-> FALSE, hash |-> hgetall(documentId[w])]]
          /\ Goto(w, IF StatusOf(documentId[w]) = "VALIDATED" THEN "hset_persisted" ELSE "hset_failed")
          /\ UNCHANGED <<group, cur, documentId, error, escaped, faults>>
       \/ /\ hgetall(documentId[w]) # EmptyHash
          /\ StatusOf(documentId[w]) \notin {"VALIDATED", "VALIDATION_FAILED"}
          /\ Return(w)
          /\ UNCHANGED faults
    /\ UNCHANGED <<rec, left, content, stream, upload, foreign>>

\* await hset('status', 'PERSISTED')
PerHsetPersisted(w) ==
    /\ w \in PersistenceWorkers
    /\ pc[w] = "hset_persisted"
    /\ \/ /\ Hset(documentId[w], [status |-> "PERSISTED"])
          /\ Continue(w, "del")
          /\ UNCHANGED faults
       \/ /\ CallThrows(w)
          /\ UNCHANGED <<rec, left>>
    /\ UNCHANGED <<content, stream, upload, foreign>>

\* A del that removes nothing.
PerDelKeeps(w) ==
    /\ w \in PersistenceWorkers
    /\ pc[w] = "del"
    /\ UNCHANGED <<content, faults>>
    /\ Return(w)
    /\ UNCHANGED <<rec, left, stream, upload, foreign>>

\* await del(`document_content:${documentId}`)
PerDel(w) ==
    /\ w \in PersistenceWorkers
    /\ pc[w] = "del"
    /\ \/ /\ content' = content \ {documentId[w]}
          /\ Return(w)
          /\ UNCHANGED faults
       \/ /\ CallThrows(w)
          /\ UNCHANGED content
    /\ UNCHANGED <<rec, left, stream, upload, foreign>>

\* A VALIDATION_FAILED branch that discards the payload as well.
PerHsetFailedDiscards(w) ==
    /\ w \in PersistenceWorkers
    /\ pc[w] = "hset_failed"
    /\ Hset(documentId[w], [status |-> "FAILED"])
    /\ content' = content \ {documentId[w]}
    /\ Return(w)
    /\ UNCHANGED <<stream, upload, foreign, faults>>

\* await hset('status', 'FAILED') of the VALIDATION_FAILED branch
PerHsetFailed(w) ==
    /\ w \in PersistenceWorkers
    /\ pc[w] = "hset_failed"
    /\ \/ /\ Hset(documentId[w], [status |-> "FAILED"])
          /\ Return(w)
          /\ UNCHANGED faults
       \/ /\ CallThrows(w)
          /\ UNCHANGED <<rec, left>>
    /\ UNCHANGED <<content, stream, upload, foreign>>

PerCatchHset(w) == w \in PersistenceWorkers /\ CatchHset(w, "FAILED")
PerCatchXadd(w) == w \in PersistenceWorkers /\ CatchXadd(w, "dlq_persistence_failed")

persistDocument(w) ==
    \/ PerHgetall(w) \/ PerHsetPersisted(w) \/ PerDel(w) \/ PerHsetFailed(w)
    \/ PerCatchHset(w) \/ PerCatchXadd(w)

\* ---------------------------------------------------------- specification
\* One step of a processor: its loop or the handler it is in.
WorkerStep(w) ==
    \/ StartProcessor(w) \/ ReadNext(w) \/ AckHandled(w) \/ AckMalformed(w) \/ RetryDelay(w)
    \/ processDocumentForOCR(w) \/ processDocumentForValidation(w) \/ persistDocument(w)
\* One step of the upload endpoint.
UploadStep == UploadHset \/ UploadSet \/ UploadXadd

Next ==
    \/ UploadStep
    \/ ForeignAppend
    \/ \E w \in Workers : WorkerStep(w)

Spec == Init /\ [][Next]_vars

\* Node's event loop runs every continuation whose awaited call has settled,
\* and a request that has started runs to its end.
FairSpec ==
    /\ Spec
    /\ \A w \in Workers : WF_vars(WorkerStep(w))
    /\ WF_vars(UploadSet \/ UploadXadd)

\* ------------------------------------------------------------------ claims

\* The transition graph of the status field.
Edges ==
    {<<"UPLOADED", "OCR_PENDING">>, <<"OCR_PENDING", "OCR_COMPLETED">>,
     <<"OCR_PENDING", "OCR_FAILED">>, <<"OCR_COMPLETED", "VALIDATION_PENDING">>,
     <<"VALIDATION_PENDING", "VALIDATED">>, <<"VALIDATION_PENDING", "VALIDATION_FAILED">>,
     <<"VALIDATED", "PERSISTED">>, <<"VALIDATION_FAILED", "FAILED">>}
Terminal == {"PERSISTED", "FAILED", "OCR_FAILED"}
RecordIds == DocIds \cup {UnknownId}
\* The worker is inside its handler (between the call and the return).
InHandler(w) == pc[w] \notin {"xgroup", "xreadgroup", "xack", "delay", "exited"}
\* Every processor has created or found its group and is in its loop.
AllRunning == \A w \in Workers : pc[w] \notin {"xgroup", "exited"}
\* The step changes the status of record id, and not along an edge of the graph.
OffGraph(id) ==
    /\ StatusOf(id)' # StatusOf(id)
    /\ StatusOf(id) # ""
    /\ <<StatusOf(id), StatusOf(id)'>> \notin Edges
\* The pending entry i of topic t, if there is one.
Pending(t, i) == {p \in group[t].pel : p.id = i}
PendingNext(t, i) == {p \in group'[t].pel : p.id = i}
\* The entry has a field named documentId (names stand at the odd places).
HasDocumentIdField(data) ==
    \E i \in 1..Len(data) : i % 2 = 1 /\ data[i] = "documentId"
\* The entry the worker has in flight has no documentId field.
MalformedInFlight(w) ==
    /\ cur[w] # 0
    /\ ~HasDocumentIdField(stream[STREAM_KEY(w)][cur[w]])

\* C1: every document the upload endpoint queues with its record and payload
\* stored, while all processors are in their loops, eventually has a status in
\* {PERSISTED, FAILED, OCR_FAILED} for good, if the upload is accepted.
C1_ReachesTerminal ==
    \A id \in DocIds :
        [](upload.pc = "xadd" /\ UploadId = id /\ AllRunning
              => <>[](id \in upload.accepted => StatusOf(id) \in Terminal))

\* C2: a record never has again a status it had and left.
C2_NeverRevisits == \A id \in RecordIds : StatusOf(id) \notin left[id]

\* C3: every change of a record's status follows an edge of the transition
\* graph.
C3_WritesFollowEdges == [][\A id \in RecordIds : ~OffGraph(id)]_vars

\* C4: a handler that is past its hgetall and precondition checks (it is about
\* to write its _PENDING status, or has written it) has read the status its
\* stage expects: UPLOADED for recognition, OCR_COMPLETED for validation.
C4_RefusesUnexpectedStatus ==
    /\ \A w \in OcrWorkers :
          pc[w] \in {"hset_pending", "hset_result", "xadd_next"}
              => document[w].hash["status"] = "UPLOADED"
    /\ \A w \in ValidationWorkers :
          pc[w] \in {"hset_pending", "hset_result"}
              => document[w].hash["status"] = "OCR_COMPLETED"

\* C5: a status of PERSISTED, OCR_FAILED or FAILED never changes.
C5_TerminalAbsorbing ==
    [][\A id \in RecordIds : StatusOf(id) \in Terminal => StatusOf(id)' = StatusOf(id)]_vars

\* Two consumers of one group are inside the handler for the same document.
Racing(id) ==
    \E w1, w2 \in Workers :
        /\ w1 # w2
        /\ STREAM_KEY(w1) = STREAM_KEY(w2)
        /\ InHandler(w1) /\ InHandler(w2)
        /\ documentId[w1] = id /\ documentId[w2] = id

\* No handler is in, or enters, its catch block.
NoneCaught == \A w \in Workers : error[w] = NoError /\ error'[w] = NoError

\* C6: while two consumers run the same handler for the same document, each
\* on its path without an error, every change of the record's status follows
\* an edge of the transition graph.
C6_RaceStaysOnGraph ==
    [][\A id \in RecordIds : Racing(id) /\ NoneCaught => ~OffGraph(id)]_vars

\* C7, as stated: an entry whose handler returned is pending only while its
\* consumer is at the xack call for it.
C7_ReturnedNeverStaysPending ==
    \A t \in InputTopics : \A p \in group[t].pel :
        p.returned => pc[p.consumer] = "xack" /\ cur[p.consumer] = p.id

\* C7, amended: an entry whose handler returned is pending only while its
\* consumer is at the xack call for it, or after that xack call failed.
C7_ReturnedAckedUnlessAckFails ==
    \A t \in InputTopics : \A p \in group[t].pel :
        p.returned => \/ pc[p.consumer] = "xack" /\ cur[p.consumer] = p.id
                      \/ p.ackFailed

\* The entry of an uploaded document was delivered, its handler returned on
\* its success path (the next topic has its entry) and the entry was
\* acknowledged.
C7_Witness ==
    \E i \in 1..group["document_queue"].last : \E id \in DocIds :
        /\ stream["document_queue"][i] = <<"documentId", id, "status", "UPLOADED">>
        /\ Pending("document_queue", i) = {}
        /\ Len(stream["ocr_result_queue"]) > 0
        /\ StatusOf(id) = "OCR_COMPLETED"

\* C8: no exception leaves a handler.
C8_NothingEscapesHandler == \A w \in Workers : escaped[w] # "handler"

\* C9: an entry left unacknowledged by an exception that reached the loop is
\* later in flight again at a consumer of its group.
C9_Redelivered ==
    \A t \in InputTopics : \A i \in 1..(NumDocs + MaxForeign) :
        (\E w \in Workers : STREAM_KEY(w) = t /\ pc[w] = "delay" /\ cur[w] = i
                            /\ Pending(t, i) # {})
            ~> (\E w \in Workers : STREAM_KEY(w) = t /\ pc[w] # "delay" /\ cur[w] = i)

\* What a step of worker w does to an entry without a documentId field.
SkipsMalformed(w) ==
    /\ pc[w] = "xreadgroup" /\ MalformedInFlight(w)' => pc'[w] = "xack"
    /\ MalformedInFlight(w) /\ pc'[w] # pc[w] =>
          /\ UNCHANGED <<rec, content, stream>>
          /\ pc[w] \in {"xack", "delay"}
          /\ pc'[w] \in {"xreadgroup", "delay"}

\* C10, as stated: an entry without a documentId field goes to xack with no
\* handler run, no record, payload or topic written, and the xack removes it
\* from the pending entries.
C10_MalformedAcked ==
    [][\A w \in Workers :
          /\ SkipsMalformed(w)
          /\ MalformedInFlight(w) /\ pc[w] = "xack" /\ pc'[w] # pc[w]
                => PendingNext(STREAM_KEY(w), cur[w]) = {}]_vars

\* C10, amended: the same, but the entry stays pending when the xack call
\* itself fails; the processor then waits and reads on.
C10_MalformedSkipped ==
    [][\A w \in Workers :
          /\ SkipsMalformed(w)
          /\ MalformedInFlight(w) /\ pc[w] = "xack" /\ pc'[w] # pc[w]
                => \/ pc'[w] = "xreadgroup" /\ PendingNext(STREAM_KEY(w), cur[w]) = {}
                   \/ pc'[w] = "delay" /\ faults' = faults + 1]_vars

\* An entry without a documentId field was read and acknowledged, and the
\* processor has read the entry after it.
C10_Witness ==
    \E t \in InputTopics : \E i \in 1..group[t].last :
        /\ ~HasDocumentIdField(stream[t][i])
        /\ Pending(t, i) = {}
        /\ group[t].last > i

\* What a step of worker w does when its handler's hgetall finds no record:
\* the handler returns to the loop without raising, and record, payload and
\* topics are as before.
ReturnsOnNoRecord(w) ==
    pc[w] = "hgetall" /\ hgetall(documentId[w]) = EmptyHash /\ pc'[w] # pc[w] =>
        /\ pc'[w] = "xack"
        /\ escaped'[w] = escaped[w]
        /\ UNCHANGED <<rec, content, stream>>
\* The worker leaves the xack call for the entry of the id that has no record.
AcksNoRecord(w) == pc[w] = "xack" /\ documentId[w] = UnknownId /\ pc'[w] # pc[w]

\* C11, as stated: a handler invoked with an id that has no record returns
\* without raising and without writing a record field or appending to any
\* topic, and the entry is acknowledged.
C11_NoRecordAcked ==
    [][\A w \in Workers :
          /\ ReturnsOnNoRecord(w)
          /\ AcksNoRecord(w) => PendingNext(STREAM_KEY(w), cur[w]) = {}]_vars

\* C11, amended: the same, but the entry stays pending when the xack call
\* itself fails.
C11_NoRecordSkipped ==
    [][\A w \in Workers :
          /\ ReturnsOnNoRecord(w)
          /\ AcksNoRecord(w) =>
                \/ pc'[w] = "xreadgroup" /\ PendingNext(STREAM_KEY(w), cur[w]) = {}
                \/ pc'[w] = "delay" /\ faults' = faults + 1]_vars

\* An entry naming an id without a record was delivered and acknowledged;
\* there is still no record, and no dead-letter entry names the id.
C11_Witness ==
    /\ hgetall(UnknownId) = EmptyHash
    /\ \E t \in InputTopics : \E i \in 1..group[t].last :
          /\ documentIdOf(stream[t][i]) = UnknownId
          /\ Pending(t, i) = {}
    /\ \A t \in Topics \ InputTopics : \A i \in 1..Len(stream[t]) :
          documentIdOf(stream[t][i]) # UnknownId

\* The step on which the handler run by worker w ends (it returns to the loop
\* or an exception leaves it).
HandlerEnds(w) == InHandler(w) /\ pc'[w] \in {"xack", "delay"}
\* The step appends exactly the entry `data` to `topic` and nothing else to
\* any topic.
Appends(topic, data) == stream' = xadd(topic, data)

\* C12: the recognition handler, invoked on the record of an upload, ends
\* with the result stored, status OCR_COMPLETED and its entry appended to
\* ocr_result_queue, or with status OCR_FAILED and an entry {documentId,
\* error} appended to dlq_ocr_failed.
C12_RecognitionTwoOutcomes ==
    [][\A w \in OcrWorkers : \A id \in DocIds :
          foreign.n = 0 /\ documentId[w] = id /\ HandlerEnds(w) =>
              \/ /\ "ocrResult" \in DOMAIN rec'[id]
                 /\ rec'[id]["status"] = "OCR_COMPLETED"
                 /\ Appends("ocr_result_queue", <<"documentId", id, "status", "OCR_COMPLETED">>)
              \/ /\ rec'[id]["status"] = "OCR_FAILED"
                 /\ \E e \in {RedisError, "Original content not found for document"} :
                        Appends("dlq_ocr_failed", <<"documentId", id, "error", e>>)]_vars

\* ------------------------------------------- a record recognized beforehand
\* The validation service is a process of its own: it works on whatever
\* recognition result the store holds. StoredSpec starts with one more
\* document, already recognized, whose text fails the validation checks; its
\* record and payload are stored, its entry is the first of ocr_result_queue,
\* and the validation group exists and has delivered nothing.
StoredId == DocNames[NumDocs + 1]
StoredText == "unreadable"
StoredRecord(text) ==
    [id |-> StoredId, filename |-> "invoice.pdf", status |-> "OCR_COMPLETED",
     createdAt |-> "t0", ocrResult |-> OCRResult(text)]
StoredInit ==
    /\ rec = [id \in DocIds \cup {UnknownId, StoredId} |->
                 IF id = StoredId THEN StoredRecord(StoredText) ELSE EmptyHash]
    /\ content = {StoredId}
    /\ stream = [t \in Topics |->
                    IF t = "ocr_result_queue"
                    THEN <<<<"documentId", StoredId, "status", "OCR_COMPLETED">>>>
                    ELSE <<>>]
    /\ group = [t \in InputTopics |->
                    [created |-> t = "ocr_result_queue", last |-> 0, pel |-> {}]]
    /\ pc = [w \in Workers |-> "xgroup"]
    /\ cur = [w \in Workers |-> 0]
    /\ documentId = [w \in Workers |-> ""]
    /\ document = [w \in Workers |-> NullDocument]
    /\ error = [w \in Workers |-> NoError]
    /\ escaped = [w \in Workers |-> "none"]
    /\ upload = [pc |-> "idle", n |-> 0, accepted |-> {}]
    /\ faults = 0
    /\ foreign = [n |-> 0, ids |-> {}]
    /\ left = [id \in DocIds \cup {UnknownId, StoredId} |-> {}]
StoredSpec == StoredInit /\ [][Next]_vars

\* The text of the recognition result stored for id.
StoredTextOf(id) == TextOf[rec[id]["ocrResult"].text]
\* Worker w ran the checks on the stored document's text, which fails them,
\* and takes the step of one of the two calls that follow.
ChecksFailed(w) ==
    /\ documentId[w] = StoredId
    /\ pc[w] \in {"hset_result", "xadd_next"}
    /\ pc'[w] # pc[w]
\* After the step, the record of id holds every message of the failed checks
\* and status VALIDATION_FAILED.
Recorded(id) ==
    /\ "validationErrors" \in DOMAIN rec'[id]
    /\ rec'[id]["validationErrors"] =
           validateInvoiceMetadata(extractInvoiceMetadata(StoredTextOf(id)))
    /\ rec'[id]["status"] = "VALIDATION_FAILED"
\* The step of w records the failure (first call), or appends the entry
\* tagged VALIDATION_FAILED to validation_queue and to no other topic and
\* returns (second call).
RoutedForward(w) ==
    /\ Recorded(StoredId)
    /\ \/ pc[w] = "hset_result" /\ pc'[w] = "xadd_next" /\ UNCHANGED stream
       \/ /\ pc[w] = "xadd_next" /\ pc'[w] = "xack"
          /\ Appends("validation_queue",
                     <<"documentId", StoredId, "status", "VALIDATION_FAILED">>)
\* The entries of a topic that name id.
EntriesFor(topic, id) ==
    {i \in 1..Len(stream[topic]) : documentIdOf(stream[topic][i]) = id}

\* C13, as stated: when the checks fail, the validation handler records all
\* failure messages with status VALIDATION_FAILED, then appends one entry
\* tagged VALIDATION_FAILED to validation_queue, and appends nothing to
\* dlq_validation_failed.
C13_FailedChecksRoutedForward ==
    [][\A w \in ValidationWorkers : ChecksFailed(w) => RoutedForward(w)]_vars

\* C13, amended: the same unless one of the two calls rejects, which takes the
\* handler to its catch block; validation_queue never holds a second entry
\* for the document, and a dead-letter entry for it carries the message of a
\* rejected call.
C13_FailedChecksRoutedUnlessCallFails ==
    /\ [][\A w \in ValidationWorkers :
             ChecksFailed(w) =>
                 \/ RoutedForward(w)
                 \/ /\ faults' = faults + 1
                    /\ pc'[w] = "catch_hset"
                    /\ UNCHANGED <<rec, stream>>]_vars
    /\ [](Cardinality(EntriesFor("validation_queue", StoredId)) <= 1)
    /\ [](\A i \in EntriesFor("dlq_validation_failed", StoredId) :
             stream["dlq_validation_failed"][i] = <<"documentId", StoredId, "error", RedisError>>)

\* The stored document failed all five checks without any call rejecting: its
\* record holds the five messages and VALIDATION_FAILED, validation_queue
\* holds its entry, and dlq_validation_failed is empty.
C13_Witness ==
    /\ faults = 0
    /\ "validationErrors" \in DOMAIN rec[StoredId]
    /\ Len(rec[StoredId]["validationErrors"]) = 5
    /\ rec[StoredId]["status"] = "VALIDATION_FAILED"
    /\ stream["validation_queue"] = <<<<"documentId", StoredId, "status", "VALIDATION_FAILED">>>>
    /\ stream["dlq_validation_failed"] = <<>>

\* C14: a run of the validation handler on the record of an upload ends with its
\* entry appended to dlq_validation_failed and status VALIDATION_FAILED
\* exactly when one of its calls rejected or it found the recognition result
\* missing.
C14_DeadLetterExactlyOnFailure ==
    [][\A w \in ValidationWorkers : \A id \in DocIds :
          foreign.n = 0 /\ documentId[w] = id /\ hgetall(id) # EmptyHash /\ HandlerEnds(w) =>
              ((faults' = faults + 1 \/ error[w] # NoError)
                  <=> /\ rec'[id]["status"] = "VALIDATION_FAILED"
                      /\ Appends("dlq_validation_failed",
                                 <<"documentId", id, "error", error[w]>>))]_vars

\* The handler run by w read a record with this status.
FoundStatus(w, status) ==
    /\ ~document[w].null
    /\ document[w].hash["status"] = status
\* The call that w awaits rejects and the handler enters its catch block.
\* Nothing is written by the step.
RejectedToCatch(w) ==
    /\ faults' = faults + 1
    /\ pc'[w] = "catch_hset"
    /\ UNCHANGED <<rec, content, stream>>

\* C15, as stated: when the persistence handler found the record of an upload
\* in status VALIDATED, the status is PERSISTED and the payload is gone when
\* the handler returns.
C15_ValidatedPersisted ==
    [][\A w \in PersistenceWorkers : \A id \in DocIds :
          foreign.n = 0 /\ documentId[w] = id /\ FoundStatus(w, "VALIDATED")
              /\ HandlerEnds(w) =>
                  rec'[id]["status"] = "PERSISTED" /\ id \notin content']_vars

\* C15, amended: having found VALIDATED, the handler writes PERSISTED, then
\* deletes the payload and returns (with status PERSISTED when no entry was
\* delivered twice); or one of the two calls rejects and the handler enters
\* its catch block, which never deletes the payload.
C15_ValidatedPersistedUnlessCallFails ==
    [][\A w \in PersistenceWorkers : \A id \in DocIds :
          documentId[w] = id /\ FoundStatus(w, "VALIDATED") /\ pc'[w] # pc[w] =>
              /\ pc[w] = "hset_persisted" =>
                    \/ /\ rec'[id]["status"] = "PERSISTED"
                       /\ pc'[w] = "del"
                       /\ UNCHANGED <<content, stream>>
                    \/ RejectedToCatch(w)
              /\ pc[w] = "del" =>
                    \/ /\ id \notin content'
                       /\ pc'[w] = "xack"
                       /\ UNCHANGED <<rec, stream>>
                       /\ foreign.n = 0 => rec'[id]["status"] = "PERSISTED"
                    \/ RejectedToCatch(w)
              /\ pc[w] \in {"catch_hset", "catch_xadd"} => UNCHANGED content]_vars

\* An accepted upload was persisted without any call rejecting: status
\* PERSISTED, payload deleted, entry acknowledged.
C15_Witness ==
    \E id \in upload.accepted :
        /\ faults = 0
        /\ rec[id]["status"] = "PERSISTED"
        /\ id \notin content
        /\ group["validation_queue"].last = 1
        /\ group["validation_queue"].pel = {}

PersistedStatuses == {"VALIDATED", "VALIDATION_FAILED"}
\* What a step of persistence worker w does when its handler reads a record
\* in another status: it returns to the loop, and record, payload and topics
\* are as before.
ReturnsOnOtherStatus(w) ==
    /\ pc[w] = "hgetall"
    /\ hgetall(documentId[w]) # EmptyHash
    /\ StatusOf(documentId[w]) \notin PersistedStatuses
    /\ pc'[w] # pc[w]
    => /\ pc'[w] = "xack"
       /\ escaped'[w] = escaped[w]
       /\ UNCHANGED <<rec, content, stream>>
\* The worker leaves the xack call for an entry whose record is in a status
\* that persistDocument neither acts on nor writes.
AcksOtherStatus(w) ==
    /\ pc[w] = "xack"
    /\ hgetall(documentId[w]) # EmptyHash
    /\ StatusOf(documentId[w]) \notin PersistedStatuses \cup {"PERSISTED", "FAILED"}
    /\ pc'[w] # pc[w]

\* C17, as stated: the persistence handler that finds a record in a status
\* other than VALIDATED and VALIDATION_FAILED changes no record field, payload
\* or topic, and the entry is acknowledged.
C17_OtherStatusAcked ==
    [][\A w \in PersistenceWorkers :
          /\ ReturnsOnOtherStatus(w)
          /\ AcksOtherStatus(w) => PendingNext(STREAM_KEY(w), cur[w]) = {}]_vars

\* C17, amended: the same, but the entry stays pending when the xack call
\* itself fails.
C17_OtherStatusSkipped ==
    [][\A w \in PersistenceWorkers :
          /\ ReturnsOnOtherStatus(w)
          /\ AcksOtherStatus(w) =>
                \/ pc'[w] = "xreadgroup" /\ PendingNext(STREAM_KEY(w), cur[w]) = {}
                \/ pc'[w] = "delay" /\ faults' = faults + 1]_vars

\* The one validation_queue entry of an accepted upload was delivered and
\* acknowledged without any call rejecting, while a second validation run (of
\* a duplicate ocr_result_queue entry) had put the record back to
\* VALIDATION_PENDING: the payload is still stored, the status is unchanged
\* and dlq_persistence_failed is empty.
C17_Witness ==
    \E id \in upload.accepted :
        /\ faults = 0
        /\ Len(stream["ocr_result_queue"]) = 2
        /\ stream["validation_queue"] = <<<<"documentId", id, "status", "VALIDATED">>>>
        /\ group["validation_queue"].last = 1
        /\ group["validation_queue"].pel = {}
        /\ rec[id]["status"] = "VALIDATION_PENDING"
        /\ id \in content
        /\ stream["dlq_persistence_failed"] = <<>>

\* The _PENDING status and the terminal substates of the stage worker w runs.
PendingStatusOf(w) == IF w \in OcrWorkers THEN "OCR_PENDING" ELSE "VALIDATION_PENDING"
TerminalSubstatesOf(w) ==
    IF w \in OcrWorkers THEN {"OCR_COMPLETED", "OCR_FAILED"}
    ELSE {"VALIDATED", "VALIDATION_FAILED"}

\* C18: with every entry delivered once, a recognition or validation handler
\* that writes one of its terminal substates writes it over its own _PENDING
\* status: _PENDING was written first in the same invocation and no terminal
\* substate was written before.
C18_PendingBeforeTerminal ==
    [][\A w \in OcrWorkers \cup ValidationWorkers : \A id \in DocIds :
          /\ foreign.n = 0
          /\ documentId[w] = id
          /\ InHandler(w)
          /\ pc'[w] # pc[w]
          /\ rec'[id] # rec[id]
          /\ rec'[id]["status"] \in TerminalSubstatesOf(w)
          => StatusOf(id) = PendingStatusOf(w)]_vars

\* Two processors run their handlers on the same document at the same time.
BothActive(w1, w2) ==
    /\ w1 # w2
    /\ InHandler(w1) /\ InHandler(w2)
    /\ documentId[w1] = documentId[w2]

\* C19: while no entry is a duplicate (every entry on the topics comes from
\* the pipeline itself), no two handlers are active on the same document at
\* the same time, of different stages or of the same.
C19_OneStageActive ==
    foreign.n = 0 => \A w1, w2 \in Workers : ~BothActive(w1, w2)

\* The validation handler is active on a document whose recognition handler
\* has just returned (its entry is not acknowledged yet), with no duplicate
\* entry anywhere.
C19_Witness ==
    /\ foreign.n = 0
    /\ \E o \in OcrWorkers : \E v \in ValidationWorkers :
          /\ pc[o] = "xack"
          /\ InHandler(v)
          /\ documentId[o] = documentId[v]
          /\ documentId[v] \in DocIds

\* The step hands an entry to worker w.
Delivered(w) == cur'[w] \notin {0, cur[w]}

\* C20: an entry handed to a consumer is the first one the group has not
\* delivered yet, and the group's last-delivered id moves past it and never
\* back; so no entry is handed out twice, to the same or to another consumer,
\* and no two consumers hold the same entry.
C20_DeliveredOnce ==
    /\ [][\A w \in Workers :
             Delivered(w) =>
                 /\ cur'[w] = group[STREAM_KEY(w)].last + 1
                 /\ group'[STREAM_KEY(w)].last = cur'[w]]_vars
    /\ [][\A t \in InputTopics : group'[t].last >= group[t].last]_vars
    /\ [](\A w1, w2 \in Workers :
             w1 # w2 /\ STREAM_KEY(w1) = STREAM_KEY(w2) /\ cur[w1] # 0 => cur[w1] # cur[w2])
    /\ [](\A t \in InputTopics : \A p, q \in group[t].pel : p.id = q.id => p.consumer = q.consumer)

\* The two consumers of the validation group run their handlers at the same
\* time, each on its own entry of ocr_result_queue.
C20_Witness ==
    \E v1, v2 \in ValidationWorkers :
        /\ v1 # v2
        /\ InHandler(v1) /\ InHandler(v2)
        /\ cur[v1] = 1 /\ cur[v2] = 2

\* The ids of the entries of topic t that are or were in the hands of a
\* consumer: those pending and those in flight. (Entry ids are positions in
\* the topic, so a smaller id is an earlier append.)
InHands(t) ==
    {p.id : p \in group[t].pel} \cup {cur[w] : w \in {x \in Workers : STREAM_KEY(x) = t}}

\* C21: an entry is delivered after every entry of its topic that was
\* appended before it and is delivered at all: a delivered entry is newer
\* than the group's last-delivered id and than every entry in a consumer's
\* hands, and the last-delivered id covers it afterwards.
C21_DeliveredInAppendOrder ==
    [][\A w \in Workers :
          Delivered(w) =>
              /\ cur'[w] > group[STREAM_KEY(w)].last
              /\ \A i \in InHands(STREAM_KEY(w)) : i < cur'[w]
              /\ group'[STREAM_KEY(w)].last >= cur'[w]
              /\ \A i \in (group[STREAM_KEY(w)].last + 1)..(cur'[w] - 1) :
                    i > Len(stream[STREAM_KEY(w)])]_vars

\* The persistence processor holds the second entry of validation_queue
\* after the first one was delivered and acknowledged.
C21_Witness ==
    \E w \in PersistenceWorkers :
        /\ Len(stream["validation_queue"]) = 2
        /\ cur[w] = 2
        /\ group["validation_queue"].last = 2
        /\ Pending("validation_queue", 1) = {}
        /\ Pending("validation_queue", 2) # {}

\* C22: a processor that starts when its group exists already leaves the
\* group (position and pending entries), the topics and the records as they
\* are and enters its read loop, unless the call fails with another error,
\* which ends the processor; a processor ends in no other way.
C22_ExistingGroupKept ==
    [][\A w \in Workers :
          /\ pc[w] = "xgroup" /\ group[STREAM_KEY(w)].created /\ pc'[w] # pc[w] =>
                /\ UNCHANGED <<group, stream, rec, content>>
                /\ \/ pc'[w] = "xreadgroup" /\ UNCHANGED faults
                   \/ pc'[w] = "exited" /\ faults' = faults + 1
          /\ pc'[w] = "exited" /\ pc[w] # "exited" =>
                pc[w] = "xgroup" /\ faults' = faults + 1]_vars

\* Both consumers of the validation group, which existed before either
\* started, are in their loops without any call having failed; one of them
\* holds the first entry and the other waits for the next.
C22_Witness ==
    \E v1, v2 \in ValidationWorkers :
        /\ faults = 0
        /\ InHandler(v1) /\ cur[v1] = 1
        /\ pc[v2] = "xreadgroup"
        /\ group["ocr_result_queue"].last = 1
        /\ Pending("ocr_result_queue", 1) # {}

Options(name, values) == {NoMetadata} \cup {Field(name, v) : v \in values}
TextInputs == {<<>>, <<"A">>, <<"A", " ", "b">>}
AmountInputs ==
    {NaN, [mant |-> 0, scale |-> 0], [mant |-> 0 - 5, scale |-> 0],
     [mant |-> 1, scale |-> 2], [mant |-> 123456, scale |-> 2]}
DateInputs ==
    {<<>>,
     <<"2","0","2","5","-","0","7","-","0","8">>,
     <<"2","0","2","5","-","7","-","8">>,
     <<"2","0","2","5","-","0","7","-","0","8","1">>,
     <<"2","0","2","5","/","0","7","/","0","8">>,
     <<"J","u","l","y","-","0","8","-","2","5">>}
MetadataInputs ==
    {a @@ b @@ c @@ d @@ e :
        a \in Options("invoiceNumber", TextInputs),
        b \in Options("customerName", TextInputs),
        c \in Options("totalAmount", AmountInputs),
        d \in Options("currency", TextInputs),
        e \in Options("issueDate", DateInputs)}
\* The validation worker whose handler makes the call.
Validator == "validation_worker_1"

\* const validationErrors = validateInvoiceMetadata(extractedMetadata), with
\* the handler's document holding the argument before and the result after.
ValidateInit ==
    /\ Init!1 /\ Init!2 /\ Init!3 /\ Init!4
    /\ pc = [w \in Workers |-> IF w = Validator THEN "validate" ELSE "xgroup"]
    /\ Init!6 /\ Init!7
    /\ \E m \in MetadataInputs :
          document = [w \in Workers |->
                         IF w = Validator
                         THEN [null |-> FALSE, hash |-> [extractedMetadata |-> m]]
                         ELSE NullDocument]
    /\ Init!9 /\ Init!10 /\ Init!11 /\ Init!12 /\ Init!13 /\ Init!14
Validate ==
    /\ pc[Validator] = "validate"
    /\ document' = [document EXCEPT ![Validator].hash =
                       [validationErrors |->
                            validateInvoiceMetadata(@["extractedMetadata"])] @@ @]
    /\ pc' = [pc EXCEPT ![Validator] = "validated"]
    /\ UNCHANGED <<rec, content, stream, group, cur, documentId, error, escaped,
                   upload, faults, foreign, left>>
ValidateSpec == ValidateInit /\ [][Validate]_vars

\* The five checks as the claim words them, by number, and their messages.
CheckMessages == <<ErrInvoiceNumber, ErrCustomerName, ErrTotalAmount, ErrCurrency, ErrIssueDate>>
PresentNonEmpty(m, f) == f \in DOMAIN m /\ Len(m[f]) > 0
FourTwoTwo(d) ==
    /\ Len(d) = 10
    /\ \A i \in {1, 2, 3, 4, 6, 7, 9, 10} : \E n \in 1..10 : DigitChars[n] = d[i]
    /\ d[5] = "-" /\ d[8] = "-"
CheckPasses(m, k) ==
    IF k = 1 THEN PresentNonEmpty(m, "invoiceNumber")
    ELSE IF k = 2 THEN PresentNonEmpty(m, "customerName")
    ELSE IF k = 3 THEN /\ "totalAmount" \in DOMAIN m
                       /\ m["totalAmount"] # NaN
                       /\ m["totalAmount"].mant > 0
    ELSE IF k = 4 THEN PresentNonEmpty(m, "currency")
    ELSE PresentNonEmpty(m, "issueDate") /\ FourTwoTwo(m["issueDate"])
\* errors is the list of the messages of the failed checks, in their order.
MessagesOfFailed(m, errors) ==
    \E pick \in [1..Len(errors) -> 1..5] :
        /\ \A i, j \in 1..Len(errors) : i < j => pick[i] < pick[j]
        /\ \A i \in 1..Len(errors) : errors[i] = CheckMessages[pick[i]]
        /\ {pick[i] : i \in 1..Len(errors)} = {k \in 1..5 : ~CheckPasses(m, k)}

\* C25: validateInvoiceMetadata returns the messages of exactly the failed
\* checks, one each, in the order invoice number, customer name, total amount,
\* currency, issue date; so it returns the empty list exactly when the four
\* strings are present and non-empty, the amount is a number above zero and
\* the date has the 4-2-2 digit pattern.
C25_ValidationMessages ==
    pc[Validator] = "validated" =>
        /\ MessagesOfFailed(document[Validator].hash["extractedMetadata"],
                            document[Validator].hash["validationErrors"])
        /\ document[Validator].hash["validationErrors"] = <<>>
              <=> \A k \in 1..5 : CheckPasses(document[Validator].hash["extractedMetadata"], k)

\* The function was applied to metadata with a customer name of length zero
\* and a date of eleven characters, everything else in order, and returned
\* the two messages in their order.
C25_Witness ==
    /\ pc[Validator] = "validated"
    /\ document[Validator].hash["extractedMetadata"] =
           Field("invoiceNumber", <<"A">>) @@ Field("customerName", <<>>)
           @@ Field("totalAmount", [mant |-> 123456, scale |-> 2])
           @@ Field("currency", <<"A">>)
           @@ Field("issueDate", <<"2","0","2","5","-","0","7","-","0","8","1">>)
    /\ document[Validator].hash["validationErrors"] = <<ErrCustomerName, ErrIssueDate>>

\* The fields the sample invoice text is said to give: invoice number
\* INV-2025-001, customer Acme Corp, total 1234.56, currency USD, date
\* 2025-07-08.
SampleInvoiceFields ==
    Field("invoiceNumber", <<"I","N","V","-","2","0","2","5","-","0","0","1">>)
    @@ Field("customerName", <<"A","c","m","e"," ","C","o","r","p">>)
    @@ Field("totalAmount", [mant |-> 123456, scale |-> 2])
    @@ Field("currency", <<"U","S","D">>)
    @@ Field("issueDate", <<"2","0","2","5","-","0","7","-","0","8">>)

\* C26: the extracted fields stored for a document recognized as the sample
\* invoice text are those of SampleInvoiceFields, no validation errors are
\* stored with them, and a document that is PERSISTED has no payload.
C26_SampleInvoiceExtracted ==
    \A id \in DocIds :
        "extractedMetadata" \in DOMAIN rec[id] /\ StoredTextOf(id) = SimulatedText =>
            /\ rec[id]["extractedMetadata"] = SampleInvoiceFields
            /\ "validationErrors" \notin DOMAIN rec[id]
            /\ StatusOf(id) = "PERSISTED" => id \notin content

\* C27: no step removes a record or a field of a record, and a payload
\* leaves the store only by the del call of a persistence handler that has
\* written PERSISTED for that document.
C27_OnlyPersistenceDiscards ==
    /\ [][\A id \in DOMAIN rec : DOMAIN rec[id] \subseteq DOMAIN rec'[id]]_vars
    /\ [][\A id \in content \ content' :
             \E w \in PersistenceWorkers :
                 /\ documentId[w] = id
                 /\ pc[w] = "del" /\ pc'[w] = "xack"
                 /\ "PERSISTED" \in left[id] \cup {StatusOf(id)}]_vars

\* The persistence handler has just returned for an accepted upload: the
\* payload is gone, the record is there with all the fields written to it.
C27_Witness ==
    \E id \in upload.accepted : \E w \in PersistenceWorkers :
        /\ pc[w] = "xack" /\ documentId[w] = id
        /\ id \notin content
        /\ {"id", "filename", "createdAt", "status", "ocrResult", "extractedMetadata"}
               \subseteq DOMAIN rec[id]

\* The fields of a record that are written at ingress only.
IngressFields == {"id", "filename", "createdAt"}

\* C28: a field written at ingress keeps its value for ever, and no step of a
\* processor writes one.
C28_IngressFieldsImmutable ==
    [][\A id \in DOMAIN rec : \A f \in IngressFields :
          /\ f \in DOMAIN rec[id] => f \in DOMAIN rec'[id] /\ rec'[id][f] = rec[id][f]
          /\ f \in DOMAIN rec'[id] /\ f \notin DOMAIN rec[id] =>
                \A w \in Workers : pc'[w] = pc[w]]_vars

\* An uploaded document ended on the recognition dead-letter path and the
\* stored document on the validation-failure path; both records hold the id,
\* filename and creation time they got at ingress.
C28_Witness ==
    /\ rec[StoredId]["status"] = "FAILED"
    /\ [f \in IngressFields |-> rec[StoredId][f]] = [f \in IngressFields |-> StoredRecord(StoredText)[f]]
    /\ \E id \in DocIds :
          /\ StatusOf(id) = "OCR_FAILED"
          /\ EntriesFor("dlq_ocr_failed", id) # {}
          /\ rec[id]["id"] = id
          /\ rec[id]["filename"] = "invoice.pdf"
          /\ rec[id]["createdAt"] = "t0"

\* Worker w issues a read: it was not waiting for xreadgroup and now is.
IssuesRead(w) == pc[w] # "xreadgroup" /\ pc'[w] = "xreadgroup"
\* The entry w held is acknowledged by the step, after its handler returned
\* (or without a handler, for an entry without a documentId).
AckedAfterReturn(w) ==
    /\ pc[w] = "xack"
    /\ PendingNext(STREAM_KEY(w), cur[w]) = {}
    /\ \A p \in Pending(STREAM_KEY(w), cur[w]) : p.returned \/ documentId[w] = ""

\* C29: a processor issues a read only at its start, after the entry it held
\* was acknowledged following its handler's return, or out of the retry
\* delay, which it enters only when a call has failed; a read hands it one
\* entry, and only while it waits for that read.
C29_OneEntryAtATime ==
    [][\A w \in Workers :
          /\ IssuesRead(w) => pc[w] = "xgroup" \/ AckedAfterReturn(w) \/ pc[w] = "delay"
          /\ pc'[w] = "delay" /\ pc[w] # "delay" => faults' = faults + 1
          /\ Delivered(w) =>
                /\ pc[w] = "xreadgroup"
                /\ cur[w] = 0
                /\ Cardinality(group'[STREAM_KEY(w)].pel)
                       = Cardinality(group[STREAM_KEY(w)].pel) + 1]_vars

\* The recognition processor waits for its next read after its first entry
\* was handled and acknowledged, and the persistence processor is in its
\* retry delay holding an entry.
C29_Witness ==
    /\ \E w \in OcrWorkers :
          /\ pc[w] = "xreadgroup"
          /\ group["document_queue"].last = 1
          /\ group["document_queue"].pel = {}
    /\ \E w \in PersistenceWorkers : pc[w] = "delay" /\ cur[w] = 1

\* C30: a group that does not exist has delivered nothing; the step that
\* creates it puts its last-delivered id on the last entry the topic holds at
\* that moment; and every delivery is of an entry beyond the last-delivered
\* id, which never moves back. So entries appended before the creation are
\* never delivered.
C30_CreatedAtTail ==
    /\ [](\A t \in InputTopics : ~group[t].created => group[t].last = 0 /\ group[t].pel = {})
    /\ [][\A t \in InputTopics :
             /\ ~group[t].created /\ group'[t].created =>
                   /\ group'[t].last = Len(stream[t])
                   /\ group'[t].pel = {}
                   /\ stream' = stream
             /\ group[t].created => group'[t].created /\ group'[t].last >= group[t].last]_vars
    /\ [][\A w \in Workers :
             Delivered(w) =>
                 /\ group[STREAM_KEY(w)].created
                 /\ cur'[w] > group[STREAM_KEY(w)].last]_vars

\* An upload was accepted before the recognition group was created: with no
\* call failed and no other producer, the group's position is on the upload's
\* entry, nothing is pending, the processor waits for a read, and the
\* document is still UPLOADED.
C30_Witness ==
    \E id \in upload.accepted : \E w \in OcrWorkers :
        /\ faults = 0 /\ foreign.n = 0
        /\ pc[w] = "xreadgroup"
        /\ group["document_queue"].created
        /\ group["document_queue"].last = 1
        /\ group["document_queue"].pel = {}
        /\ Len(stream["document_queue"]) = 1
        /\ StatusOf(id) = "UPLOADED"

\* ------------------------------------------------------- claims C31 to C36

\* C31: an entry is acknowledged only after its handler has returned. While a
\* worker is inside the handler (a record write, a payload deletion or a topic
\* append may still follow), the entry it handles is pending under it with its
\* handler not yet returned; and a worker that is at the xack call for an
\* entry with a documentId has that entry's handler behind it.
C31_AckedAfterReturn ==
    \A w \in Workers :
        /\ InHandler(w) =>
              /\ cur[w] # 0
              /\ \E p \in Pending(STREAM_KEY(w), cur[w]) : p.consumer = w /\ ~p.returned
        /\ pc[w] = "xack" /\ documentId[w] # "" =>
              /\ Pending(STREAM_KEY(w), cur[w]) # {}
              /\ \A p \in Pending(STREAM_KEY(w), cur[w]) : p.returned

\* The recognition handler wrote its result and its entry downstream for an
\* uploaded document, returned, and the loop acknowledged the entry and is
\* back at its read.
C31_Witness ==
    \E w \in OcrWorkers : \E i \in 1..group["document_queue"].last : \E id \in DocIds :
        /\ pc[w] = "xreadgroup" /\ cur[w] = 0
        /\ documentIdOf(stream["document_queue"][i]) = id
        /\ Pending("document_queue", i) = {}
        /\ "ocrResult" \in DOMAIN rec[id]
        /\ \E j \in 1..Len(stream["ocr_result_queue"]) :
              stream["ocr_result_queue"][j] = <<"documentId", id, "status", "OCR_COMPLETED">>

\* The status an entry is tagged with ("" when it has no status field).
TagOf(data) ==
    IF indexOf(data, "status") # -1 /\ indexOf(data, "status") + 2 <= Len(data)
    THEN data[indexOf(data, "status") + 2]
    ELSE ""
\* The entry worker w has in flight.
InFlight(w) == stream[STREAM_KEY(w)][cur[w]]
\* Worker w has called a downstream handler for a document that only the
\* pipeline's own producers have named, and is about to read its record.
ReadsOwnEntry(w) ==
    /\ w \in ValidationWorkers \cup PersistenceWorkers
    /\ pc[w] = "hgetall"
    /\ documentId[w] \notin foreign.ids

\* C32: when no entry for the document comes from another producer, the
\* record a downstream handler is about to read has the status its entry is
\* tagged with (OCR_COMPLETED on ocr_result_queue, VALIDATED or
\* VALIDATION_FAILED on validation_queue), and for validation a recognition
\* result with a text, for persistence the extracted fields (and the failure
\* messages when the tag is VALIDATION_FAILED).
C32_RecordWrittenBeforeEntry ==
    \A w \in Workers :
        ReadsOwnEntry(w) =>
            /\ TagOf(InFlight(w)) \in
                  (IF w \in ValidationWorkers THEN {"OCR_COMPLETED"}
                   ELSE {"VALIDATED", "VALIDATION_FAILED"})
            /\ StatusOf(documentId[w]) = TagOf(InFlight(w))
            /\ w \in ValidationWorkers =>
                  /\ "ocrResult" \in DOMAIN hgetall(documentId[w])
                  /\ TextOf[hgetall(documentId[w])["ocrResult"].text] # <<>>
            /\ w \in PersistenceWorkers =>
                  /\ "extractedMetadata" \in DOMAIN hgetall(documentId[w])
                  /\ TagOf(InFlight(w)) = "VALIDATION_FAILED"
                        => "validationErrors" \in DOMAIN hgetall(documentId[w])

\* The persistence handler has read the record for the entry tagged
\* VALIDATION_FAILED that the validation handler appended, found that status,
\* and is at the write of its branch.
C32_Witness ==
    \E w \in PersistenceWorkers :
        /\ pc[w] = "hset_failed"
        /\ documentId[w] \notin foreign.ids
        /\ TagOf(InFlight(w)) = "VALIDATION_FAILED"
        /\ ~document[w].null
        /\ document[w].hash["status"] = "VALIDATION_FAILED"
        /\ "validationErrors" \in DOMAIN document[w].hash

\* The topic a stage appends to on success, and the one of its catch block.
ForwardTopic(w) ==
    IF w \in OcrWorkers THEN "ocr_result_queue"
    ELSE IF w \in ValidationWorkers THEN "validation_queue"
    ELSE "none"
DeadLetterTopic(w) ==
    IF w \in OcrWorkers THEN "dlq_ocr_failed"
    ELSE IF w \in ValidationWorkers THEN "dlq_validation_failed"
    ELSE "dlq_persistence_failed"
\* The step is one of worker w and appends to a topic.
AppendsAsWorker(w) == pc'[w] # pc[w] /\ stream' # stream

\* C33: a step of a worker that appends is a step inside its handler, appends
\* one entry for the handler's document to one topic (the stage's forward
\* topic from the forward xadd, or its dead-letter topic from the catch
\* block's xadd), and is the last of the invocation: the handler returns with
\* it. Hence no invocation appends twice, and the catch block's append runs
\* only in an invocation whose forward append did not succeed.
C33_OneAppendPerInvocation ==
    [][\A w \in Workers :
          AppendsAsWorker(w) =>
              /\ InHandler(w)
              /\ pc'[w] = "xack"
              /\ \/ /\ pc[w] = "xadd_next"
                    /\ ForwardTopic(w) \in Topics
                    /\ \E s \in {"OCR_COMPLETED", "VALIDATED", "VALIDATION_FAILED"} :
                          Appends(ForwardTopic(w), <<"documentId", documentId[w], "status", s>>)
                 \/ /\ pc[w] = "catch_xadd"
                    /\ Appends(DeadLetterTopic(w),
                               <<"documentId", documentId[w], "error", error[w]>>)]_vars

\* The recognition handler stored its result, its forward xadd was rejected,
\* the catch block appended the dead-letter entry, and the handler returned:
\* the document has a dead-letter entry and no entry on ocr_result_queue.
C33_Witness ==
    \E w \in OcrWorkers : \E id \in DocIds :
        /\ pc[w] = "xack" /\ documentId[w] = id
        /\ "ocrResult" \in DOMAIN rec[id]
        /\ EntriesFor("dlq_ocr_failed", id) # {}
        /\ EntriesFor("ocr_result_queue", id) = {}
        /\ foreign.n = 0

DeadLetterTopics == {"dlq_ocr_failed", "dlq_validation_failed", "dlq_persistence_failed"}
\* The status the catch block of a stage writes.
FailureStatus(w) ==
    IF w \in OcrWorkers THEN "OCR_FAILED"
    ELSE IF w \in ValidationWorkers THEN "VALIDATION_FAILED"
    ELSE "FAILED"
\* The handler of w read a record for its document, and the record is stored.
RecordRead(w) ==
    /\ ~document[w].null
    /\ document[w].hash # EmptyHash
    /\ hgetall(documentId[w]) # EmptyHash

\* C34: a dead-letter topic grows only by the xadd of the catch block of its
\* stage, by one entry that names the handler's document; the handler had
\* read a record for that document, and it came to that xadd by the step that
\* wrote the stage's failure status (OCR_FAILED, VALIDATION_FAILED, FAILED) to
\* the record.
C34_DeadLetterAfterFailureStatus ==
    [][/\ \A w \in Workers :
             pc[w] # "catch_xadd" /\ pc'[w] = "catch_xadd" =>
                 /\ pc[w] = "catch_hset"
                 /\ RecordRead(w)
                 /\ StatusOf(documentId[w])' = FailureStatus(w)
       /\ \A t \in DeadLetterTopics :
             stream'[t] # stream[t] =>
                 \E w \in Workers :
                     /\ DeadLetterTopic(w) = t
                     /\ pc[w] = "catch_xadd" /\ pc'[w] = "xack"
                     /\ RecordRead(w)
                     /\ FailureStatus(w) \in {StatusOf(documentId[w])} \cup left[documentId[w]]
                     /\ Appends(t, <<"documentId", documentId[w], "error", error[w]>>)]_vars

\* A call of the validation handler was rejected after the record was read;
\* the catch block wrote VALIDATION_FAILED and appended the dead-letter entry.
C34_Witness ==
    \E id \in DocIds :
        /\ EntriesFor("dlq_validation_failed", id) # {}
        /\ StatusOf(id) = "VALIDATION_FAILED"
        /\ "ocrResult" \in DOMAIN rec[id]
        /\ \A w \in ValidationWorkers : ~InHandler(w)

\* The entry the upload endpoint appends for id.
IngressEntry(id) == <<"documentId", id, "status", "UPLOADED">>
\* The record of id and its payload are in the store.
Stored(id) == hgetall(id) # EmptyHash /\ id \in content
\* The step is the upload endpoint's and changes a topic.
UploadAppends == upload' # upload /\ stream' # stream
\* The upload endpoint comes to its xadd only through its hset and its set,
\* in this order, each having stored what it stores; it appends only at its
\* xadd, the one entry of its document to document_queue; and a step of it in
\* which a call fails appends nothing.
StoresThenAppends ==
    /\ upload.pc # "set" /\ upload'.pc = "set" =>
          /\ upload.pc = "idle"
          /\ \E id \in DocIds : id = DocNames[upload'.n] /\ StatusOf(id)' = "UPLOADED"
    /\ upload.pc # "xadd" /\ upload'.pc = "xadd" =>
          /\ upload.pc = "set"
          /\ hgetall(UploadId) # EmptyHash
          /\ UploadId \in content'
    /\ UploadAppends =>
          /\ upload.pc = "xadd"
          /\ Appends("document_queue", IngressEntry(UploadId))
          /\ UploadId \in upload'.accepted
    /\ upload' # upload /\ faults' # faults => UNCHANGED stream

DeadLetterEntriesFor(id) ==
    UNION {{<<t, i>> : i \in EntriesFor(t, id)} : t \in DeadLetterTopics}

====
